---- MODULE Spec2Model ----
\* Prompt-history aggregation and reverse-incremental search of
\* pi-extensions/cwd-history.ts, as a state machine.
\*
\* Strings are sequences of character codes (ASCII), so that the code's tests
\* on raw input (data === "\x12", data.length === 1, charCodeAt(0) >= 32) and
\* the case-insensitive match are computed as the code computes them.
EXTENDS Integers, Sequences, FiniteSets, TLC

\* ------------------------------------------------------------------ bounds

\* passes (session_start / session_switch events with a UI) per behaviour
MaxPasses == 2
\* longest search query typed
MaxQuery == 2

\* ------------------------------------------------------- program constants

MAX_HISTORY_ENTRIES == 100
MAX_RECENT_PROMPTS == 30

\* -------------------------------------------------------------- characters

CtrlG == 7
BS == 8
LF == 10
CR == 13
CtrlR == 18
ESC == 27
SPACE == 32
DEL == 127

Min(a, b) == IF a <= b THEN a ELSE b
Max(a, b) == IF a >= b THEN a ELSE b

\* Array.prototype.slice(0, n): the first n elements
Take(s, n) == SubSeq(s, 1, Min(n, Len(s)))

\* Array.prototype.slice(-n): the last n elements
LastN(s, n) == SubSeq(s, Max(1, Len(s) - n + 1), Len(s))

Range(s) == {s[i] : i \in 1..Len(s)}

\* ------------------------------------------------- strings and conversions

\* String(n) for an integer n, as character codes ("0" is 48, "-" is 45)
RECURSIVE NatToString(_)
NatToString(n) ==
    IF n < 10 THEN <<48 + n>>
    ELSE NatToString(n \div 10) \o <<48 + (n % 10)>>

NumberToString(n) == IF n < 0 THEN <<45>> \o NatToString(-n) ELSE NatToString(n)


\* a key that leaves the timestamp out
DedupKeyTextOnly(prompt) == prompt.text

\* `${prompt.timestamp}:${prompt.text}` (":" is 58)
DedupKey(prompt) == NumberToString(prompt.timestamp) \o <<58>> \o prompt.text

\* ------------------------------------------------------- buildHistoryList

\* the elements of list at the indices in keep, in the order of the list
SubSeqAt(list, keep) ==
    LET indexed == [i \in 1..Len(list) |-> [index |-> i, value |-> list[i]]]
        chosen == SelectSeq(indexed, LAMBDA x : x.index \in keep)
    IN  [k \in 1..Len(chosen) |-> chosen[k].value]

\* a merge that forgets to sort
SortByTimestampSkipped(all) == all

\* Array.prototype.sort with (a, b) => a.timestamp - b.timestamp. The sort is
\* stable: an entry goes after the entries the comparator puts before it and
\* after the earlier entries the comparator holds equal to it.
SortByTimestamp(all) ==
    LET n == Len(all)
        before(j, i) ==
            \/ all[j].timestamp - all[i].timestamp < 0
            \/ all[j].timestamp - all[i].timestamp = 0 /\ j < i
        rank == [i \in 1..n |-> 1 + Cardinality({j \in 1..n : before(j, i)})]
    IN  [k \in 1..n |-> all[CHOOSE i \in 1..n : rank[i] = k]]

\* the loop over `all` with the `seen` set of keys: an entry is pushed unless
\* an earlier entry has its key
Dedup(all) ==
    LET key == [i \in 1..Len(all) |-> DedupKey(all[i])]
    IN  SubSeqAt(all, {i \in 1..Len(all) : \A j \in 1..(i - 1) : key[j] # key[i]})

\* a cap that keeps the head of the list instead of its tail
CapHistoryHead(deduped) == Take(deduped, MAX_HISTORY_ENTRIES)

CapHistory(deduped) == LastN(deduped, MAX_HISTORY_ENTRIES)

buildHistoryList(currentSession, previousSessions) ==
    CapHistory(Dedup(SortByTimestamp(currentSession \o previousSessions)))

\* a comparison that never finds two lists equal
historiesMatchNever(a, b) == FALSE

\* historiesMatch(a, b)
historiesMatch(a, b) ==
    /\ Len(a) = Len(b)
    /\ \A i \in 1..Len(a) : a[i].text = b[i].text /\ a[i].timestamp = b[i].timestamp

\* ------------------------------------------- RegExp(searchQuery, "i")

\* The pattern characters the model interprets: "(" and ")" group, "." is the
\* wildcard, every other character drawn as input is a literal (letters,
\* digits, space).

\* paren depth after each prefix of the pattern; -1 once a ")" is unmatched
RECURSIVE ParenDepth(_, _, _)
ParenDepth(q, i, depth) ==
    IF depth < 0 \/ i > Len(q) THEN depth
    ELSE ParenDepth(q, i + 1,
                    IF q[i] = 40 THEN depth + 1
                    ELSE IF q[i] = 41 THEN depth - 1
                    ELSE depth)

\* new RegExp(q, "i") does not throw: every group is closed and no ")" is
\* unmatched
RegExpCompiles(q) == ParenDepth(q, 1, 0) = 0

\* the atoms of the pattern, in order: groups of plain concatenations match
\* what their content matches
PatternAtoms(q) == SelectSeq(q, LAMBDA c : c \notin {40, 41})

\* Canonicalize under the "i" flag, on ASCII: "A".."Z" and "a".."z" fold together
Fold(c) == IF c >= 65 /\ c <= 90 THEN c + 32 ELSE c

AtomMatches(atom, c) ==
    IF atom = 46 THEN c \notin {LF, CR} ELSE Fold(atom) = Fold(c)

\* regex.test(text): the atoms match at some position of the text
RegExpTest(q, text) ==
    LET atoms == PatternAtoms(q)
    IN  \E start \in 1..(Len(text) + 1) :
            /\ start + Len(atoms) - 1 <= Len(text)
            /\ \A k \in 1..Len(atoms) : AtomMatches(atoms[k], text[start + k - 1])

\* ------------------------------------------------------------ extractText

\* \s and the characters String.prototype.trim removes, on ASCII
IsSpace(c) == c \in {9, 10, 11, 12, 13, 32}

\* s has the literal `lit` at position i, ignoring case
HasAtFold(s, i, lit) ==
    /\ i >= 1
    /\ i + Len(lit) - 1 <= Len(s)
    /\ \A k \in 1..Len(lit) : Fold(s[i + k - 1]) = Fold(lit[k])

\* "<skill" and "</skill>"
SkillOpen == <<60, 115, 107, 105, 108, 108>>
SkillClose == <<60, 47, 115, 107, 105, 108, 108, 62>>
\* "# Review Guidelines"
ReviewHeading ==
    <<35, 32, 82, 101, 118, 105, 101, 119, 32,
      71, 117, 105, 100, 101, 108, 105, 110, 101, 115>>

\* s.indexOf(lit, from) ignoring case, 1-based: the least position >= from
\* at which s has lit, or 0
IndexOfFold(s, lit, from) ==
    IF \E j \in from..Len(s) : HasAtFold(s, j, lit)
    THEN CHOOSE j \in from..Len(s) :
            HasAtFold(s, j, lit) /\ \A k \in from..(j - 1) : ~HasAtFold(s, k, lit)
    ELSE 0

\* /<skill\s+[^>]*>[\s\S]*?<\/skill>/gi matched at position i: the position
\* after the match, or 0 when there is no match at i
SkillBlockEnd(s, i) ==
    IF ~HasAtFold(s, i, SkillOpen) THEN 0
    ELSE LET ws == i + Len(SkillOpen)
         IN  IF ws > Len(s) \/ ~IsSpace(s[ws]) THEN 0
             ELSE LET gt == IndexOfFold(s, <<62>>, ws + 1)
                  IN  IF gt = 0 THEN 0
                      ELSE LET close == IndexOfFold(s, SkillClose, gt + 1)
                           IN  IF close = 0 THEN 0 ELSE close + Len(SkillClose)

\* text.replace(skillTagRegex, "")
RECURSIVE StripSkillFrom(_, _)
StripSkillFrom(s, i) ==
    IF i > Len(s) THEN <<>>
    ELSE LET end == SkillBlockEnd(s, i)
         IN  IF end = 0 THEN <<s[i]>> \o StripSkillFrom(s, i + 1)
             ELSE StripSkillFrom(s, end)

\* a replace without the g flag: only the first block goes
StripFirstSkillBlock(s) ==
    IF \E i \in 1..Len(s) : SkillBlockEnd(s, i) # 0
    THEN LET i == CHOOSE i \in 1..Len(s) :
                    SkillBlockEnd(s, i) # 0 /\ \A j \in 1..(i - 1) : SkillBlockEnd(s, j) = 0
         IN  SubSeq(s, 1, i - 1) \o SubSeq(s, SkillBlockEnd(s, i), Len(s))
    ELSE s

StripSkillBlocks(s) == StripSkillFrom(s, 1)

\* a pattern that lacks the newline after the heading
IsReviewPromptHeadingOnly(s) == HasAtFold(s, 1, ReviewHeading)

\* /^# Review Guidelines\s*\n/i.test(s)
IsReviewPrompt(s) ==
    /\ HasAtFold(s, 1, ReviewHeading)
    /\ \E nl \in (Len(ReviewHeading) + 1)..Len(s) :
          /\ s[nl] = LF
          /\ \A k \in (Len(ReviewHeading) + 1)..(nl - 1) : IsSpace(s[k])

\* String.prototype.trim
RECURSIVE TrimStart(_)
TrimStart(s) == IF s # <<>> /\ IsSpace(Head(s)) THEN TrimStart(Tail(s)) ELSE s

RECURSIVE TrimEnd(_)
TrimEnd(s) ==
    IF s # <<>> /\ IsSpace(s[Len(s)]) THEN TrimEnd(SubSeq(s, 1, Len(s) - 1)) ELSE s

Trim(s) == TrimEnd(TrimStart(s))

\* a content item that is JSON null
NullItem == [null |-> TRUE]

IsNull(item) == DOMAIN item = {"null"}

\* extractText(content) raises a TypeError: `item.type` of line 216 is read
\* from an item that is null
extractTextThrows(content) == \E k \in 1..Len(content) : IsNull(content[k])

\* the text segments of a content array, joined: an item is
\* [type |-> ..., hasText |-> ..., text |-> ...]
RECURSIVE JoinText(_)
JoinText(content) ==
    IF content = <<>> THEN <<>>
    ELSE (IF Head(content).type = "text" /\ Head(content).hasText
          THEN Head(content).text ELSE <<>>) \o JoinText(Tail(content))

extractText(content) ==
    LET filtered == StripSkillBlocks(JoinText(content))
    IN  IF IsReviewPrompt(filtered) THEN <<>> ELSE Trim(filtered)

\* ---------------------------------------------- session records to prompts

\* A parsed session record is
\*   [type, hasMessage, role, contentIsArray, content, mts, ets]
\* where mts / ets are message.timestamp / entry.timestamp, NoTimestamp when
\* the field is missing.
NoTimestamp == -1

\* entry?.type === "message", message.role === "user", content is an array
IsUserMessage(entry) ==
    /\ entry.type = "message"
    /\ entry.hasMessage
    /\ entry.role = "user"
    /\ entry.contentIsArray

\* Number(message.timestamp ?? entry.timestamp ?? Date.now())
ResolveTimestamp(entry, now) ==
    IF entry.mts # NoTimestamp THEN entry.mts
    ELSE IF entry.ets # NoTimestamp THEN entry.ets
    ELSE now

\* the prompts one record contributes: none or one
PromptsOfEntry(entry, now) ==
    IF ~IsUserMessage(entry) THEN <<>>
    ELSE LET text == extractText(entry.content)
         IN  IF text = <<>> THEN <<>>
             ELSE <<[text |-> text, timestamp |-> ResolveTimestamp(entry, now)]>>

RECURSIVE collectUserPromptsFromEntries(_, _)
collectUserPromptsFromEntries(entries, now) ==
    IF entries = <<>> THEN <<>>
    ELSE PromptsOfEntry(Head(entries), now)
            \o collectUserPromptsFromEntries(Tail(entries), now)

\* ---------------------------------------------------- getSessionDirForCwd

\* the path separators "/" and "\", and ":"
Slash == 47
Backslash == 92
Colon == 58
Dash == 45

\* cwd.replace(/^[/\\]/, ""): one leading separator is removed
StripLeadingSeparator(cwd) ==
    IF cwd # <<>> /\ Head(cwd) \in {Slash, Backslash} THEN Tail(cwd) ELSE cwd

\* .replace(/[/\\:]/g, "-")
DashSeparators(s) ==
    [k \in 1..Len(s) |-> IF s[k] \in {Slash, Backslash, Colon} THEN Dash ELSE s[k]]

\* `--${...}--`
SafePath(cwd) == <<Dash, Dash>> \o DashSeparators(StripLeadingSeparator(cwd)) \o <<Dash, Dash>>

\* path.join(os.homedir(), ".pi", "agent", "sessions"), the home directory
\* written "~"
SessionsRoot == <<126, 47, 46, 112, 105, 47, 97, 103, 101, 110, 116, 47, 115, 101, 115, 115, 105, 111, 110, 115>>

\* getSessionDirForCwd(cwd): the safe path holds no separator and no dot
\* segment, so path.join appends it as one segment
getSessionDirForCwd(cwd) == SessionsRoot \o <<Slash>> \o SafePath(cwd)

\* ------------------------------------------------------- prompt snippets

\* A snippet collection (the parsed content of a config file, or a merge of
\* two) is a set of <<name, text>> pairs with one pair per name at most.
SnippetNames(snippets) == { e[1] : e \in snippets }

\* loadSnippets(cwd), the global and the project config holding these
\* collections (a missing or unparsable file holds none):
\* { ...globalSnippets, ...projectSnippets }
loadSnippets(globalConfig, projectConfig) ==
    projectConfig \cup { e \in globalConfig : e[1] \notin SnippetNames(projectConfig) }

\* deleteSnippet(snippets, name)
deleteSnippet(snippets, name) == { e \in snippets : e[1] # name }

\* getSnippet(snippets, name) is truthy: the name is defined with a text
\* that is not empty
SnippetFound(snippets, name) == \E e \in snippets : e[1] = name /\ e[2] # ""

\* the /snippet delete <name> handler on the disk state [global, project]:
\* the disk state it leaves and what it notifies; saveSnippets writes the
\* global config
SnippetDeleteCommand(disk, name, confirmed) ==
    LET snippets == loadSnippets(disk.global, disk.project)
    IN  IF ~SnippetFound(snippets, name)
        THEN [global |-> disk.global, project |-> disk.project, notified |-> "not found"]
        ELSE IF confirmed
        THEN [global |-> deleteSnippet(snippets, name), project |-> disk.project,
              notified |-> "deleted"]
        ELSE [global |-> disk.global, project |-> disk.project, notified |-> "none"]

\* ----------------------------------------------------- session log files

\* File content is a sequence of bytes. The JSON text of one session record
\* is a single symbol >= RecordBase, standing for the record
\* JsonRecords[symbol - RecordBase]; every other byte is itself.
RecordBase == 1000

UserEntry(txt, mts, ets) ==
    [type |-> "message", hasMessage |-> TRUE, role |-> "user",
     contentIsArray |-> TRUE,
     content |-> <<[type |-> "text", hasText |-> TRUE, text |-> txt]>>,
     mts |-> mts, ets |-> ets]

\* the records the modelled session logs and branches are made of:
\* "a" at 1, "bA" at 2, "ab" at 3, "a" at 3, an assistant message, a
\* non-message record, a blank user message, "B" without any timestamp, a
\* user message whose content array begins with null, a user message whose
\* content is a string
JsonRecords ==
    << UserEntry(<<97>>, 1, NoTimestamp),
       UserEntry(<<98, 65>>, 2, 5),
       UserEntry(<<97, 98>>, 3, NoTimestamp),
       UserEntry(<<97>>, 3, NoTimestamp),
       [UserEntry(<<97>>, 2, NoTimestamp) EXCEPT !.role = "assistant"],
       [UserEntry(<<97>>, 2, NoTimestamp) EXCEPT !.type = "session"],
       UserEntry(<<32>>, 2, NoTimestamp),
       UserEntry(<<66>>, NoTimestamp, NoTimestamp),
       [UserEntry(<<97>>, 2, NoTimestamp)
           EXCEPT !.content = <<NullItem, [type |-> "text", hasText |-> TRUE, text |-> <<97>>]>>],
       [UserEntry(<<97>>, 2, NoTimestamp) EXCEPT !.contentIsArray = FALSE, !.content = <<>>] >>

Sym(k) == RecordBase + k

\* a tail read that drops the first line of every read, also of a whole file
readTailDropsAlways(content, readOk, maxBytes) ==
    IF ~readOk THEN <<>>
    ELSE LET size == Len(content)
             start == Max(0, size - maxBytes)
             length == size - start
         IN  IF length <= 0 THEN <<>>
             ELSE LET chunk == SubSeq(content, start + 1, size)
                      firstNewline == IndexOfFold(chunk, <<LF>>, 1)
                  IN  IF firstNewline # 0
                      THEN SubSeq(chunk, firstNewline + 1, Len(chunk))
                      ELSE chunk

\* readTail(filePath, maxBytes) of a file holding `content`; `readOk` is
\* whether stat, open and read succeed
readTail(content, readOk, maxBytes) ==
    IF ~readOk THEN <<>>
    ELSE LET size == Len(content)
             start == Max(0, size - maxBytes)
             length == size - start
         IN  IF length <= 0 THEN <<>>
             ELSE LET chunk == SubSeq(content, start + 1, size)
                      firstNewline == IndexOfFold(chunk, <<LF>>, 1)
                  IN  IF start > 0 /\ firstNewline # 0
                      THEN SubSeq(chunk, firstNewline + 1, Len(chunk))
                      ELSE chunk

\* the default budget of readTail: 256 * 1024
DefaultTailBytes == 256 * 1024

\* tail.split("\n").filter(Boolean)
RECURSIVE SplitLinesFrom(_, _, _)
SplitLinesFrom(s, i, line) ==
    IF i > Len(s) THEN (IF line = <<>> THEN <<>> ELSE <<line>>)
    ELSE IF s[i] = LF
         THEN (IF line = <<>> THEN <<>> ELSE <<line>>) \o SplitLinesFrom(s, i + 1, <<>>)
         ELSE SplitLinesFrom(s, i + 1, Append(line, s[i]))

SplitLines(s) == SplitLinesFrom(s, 1, <<>>)

\* JSON.parse(line): insignificant whitespace around the value is allowed;
\* anything but one record symbol either throws or is no message record
JsonWhitespace == {9, 10, 13, 32}

JsonValue(line) == SelectSeq(line, LAMBDA c : c \notin JsonWhitespace)

ParsesToRecord(line) == Len(JsonValue(line)) = 1 /\ JsonValue(line)[1] > RecordBase

ParsedRecord(line) == JsonRecords[JsonValue(line)[1] - RecordBase]

\* the prompts one line contributes
PromptsOfLine(line, now) ==
    IF ParsesToRecord(line) THEN PromptsOfEntry(ParsedRecord(line), now) ELSE <<>>

\* the body of the inner loop raises on this line: it parses to a user
\* message with a content array and extractText raises (line 335, outside the
\* try of lines 327-331)
LineThrows(line) ==
    /\ ParsesToRecord(line)
    /\ IsUserMessage(ParsedRecord(line))
    /\ extractTextThrows(ParsedRecord(line).content)

\* the inner loop raises before it ends
RECURSIVE ScanLinesThrows(_, _, _, _)
ScanLinesThrows(lines, i, prompts, now) ==
    IF i > Len(lines) \/ Len(prompts) >= MAX_RECENT_PROMPTS THEN FALSE
    ELSE IF LineThrows(lines[i]) THEN TRUE
    ELSE ScanLinesThrows(lines, i + 1, prompts \o PromptsOfLine(lines[i], now), now)

\* the inner loop over the lines of one file, with the break at the budget
RECURSIVE ScanLines(_, _, _, _)
ScanLines(lines, i, prompts, now) ==
    IF i > Len(lines) \/ Len(prompts) >= MAX_RECENT_PROMPTS THEN prompts
    ELSE ScanLines(lines, i + 1, prompts \o PromptsOfLine(lines[i], now), now)

\* files.sort((a, b) => b.mtimeMs - a.mtimeMs), stable
RECURSIVE InsertByMtime(_, _)
InsertByMtime(sorted, f) ==
    IF sorted = <<>> THEN <<f>>
    ELSE LET last == sorted[Len(sorted)]
         IN  IF f.mtimeMs - last.mtimeMs <= 0
             THEN Append(sorted, f)
             ELSE Append(InsertByMtime(SubSeq(sorted, 1, Len(sorted) - 1), f), last)

RECURSIVE SortByMtimeFrom(_, _, _)
SortByMtimeFrom(files, i, acc) ==
    IF i > Len(files) THEN acc
    ELSE SortByMtimeFrom(files, i + 1, InsertByMtime(acc, files[i]))

\* a sort that leaves the files in the order of the directory listing
SortByMtimeSkipped(files) == files

SortByMtimeDesc(files) == SortByMtimeFrom(files, 1, <<>>)

NoFile == "none"

\* a loop over the sorted files that ends at the first file with an empty tail
RECURSIVE ScanFilesStopsAtEmpty(_, _, _, _, _)
ScanFilesStopsAtEmpty(files, i, exclude, prompts, now) ==
    IF i > Len(files) \/ Len(prompts) >= MAX_RECENT_PROMPTS THEN prompts
    ELSE IF exclude # NoFile /\ files[i].path = exclude
         THEN ScanFilesStopsAtEmpty(files, i + 1, exclude, prompts, now)
         ELSE LET tail == readTail(files[i].content, files[i].readOk, DefaultTailBytes)
              IN  IF tail = <<>> THEN prompts
                  ELSE ScanFilesStopsAtEmpty(files, i + 1, exclude,
                                             ScanLines(SplitLines(tail), 1, prompts, now),
                                             now)

\* the loop over the sorted files: the excluded file and files with an empty
\* tail are skipped, the scan stops once the budget is reached
RECURSIVE ScanFiles(_, _, _, _, _)
ScanFiles(files, i, exclude, prompts, now) ==
    IF i > Len(files) \/ Len(prompts) >= MAX_RECENT_PROMPTS THEN prompts
    ELSE IF exclude # NoFile /\ files[i].path = exclude
         THEN ScanFiles(files, i + 1, exclude, prompts, now)
         ELSE LET tail == readTail(files[i].content, files[i].readOk, DefaultTailBytes)
              IN  ScanFiles(files, i + 1, exclude,
                            ScanLines(SplitLines(tail), 1, prompts, now), now)

\* the loop over the sorted files raises before it ends
RECURSIVE ScanFilesThrows(_, _, _, _, _)
ScanFilesThrows(files, i, exclude, prompts, now) ==
    IF i > Len(files) \/ Len(prompts) >= MAX_RECENT_PROMPTS THEN FALSE
    ELSE IF exclude # NoFile /\ files[i].path = exclude
         THEN ScanFilesThrows(files, i + 1, exclude, prompts, now)
         ELSE LET tail == readTail(files[i].content, files[i].readOk, DefaultTailBytes)
                  lines == SplitLines(tail)
              IN  IF ScanLinesThrows(lines, 1, prompts, now) THEN TRUE
                  ELSE ScanFilesThrows(files, i + 1, exclude,
                                       ScanLines(lines, 1, prompts, now), now)

\* the paths handed to readTail by the loop over the sorted files, in order
RECURSIVE ScanFilesReads(_, _, _, _, _)
ScanFilesReads(files, i, exclude, prompts, now) ==
    IF i > Len(files) \/ Len(prompts) >= MAX_RECENT_PROMPTS THEN <<>>
    ELSE IF exclude # NoFile /\ files[i].path = exclude
         THEN ScanFilesReads(files, i + 1, exclude, prompts, now)
         ELSE LET tail == readTail(files[i].content, files[i].readOk, DefaultTailBytes)
              IN  <<files[i].path>>
                    \o ScanFilesReads(files, i + 1, exclude,
                                       ScanLines(SplitLines(tail), 1, prompts, now), now)

\* loadPromptHistoryForCwd(cwd, excludeSessionFile), the session directory of
\* cwd being `dir`: [readable, files], a file being
\* [path, isJsonlFile, statOk, mtimeMs, readOk, content]
loadPromptHistoryForCwd(dir, exclude, now) ==
    IF ~dir.readable THEN <<>>
    ELSE ScanFiles(SortByMtimeDesc(SelectSeq(dir.files,
                                             LAMBDA f : f.isJsonlFile /\ f.statOk)),
                   1, exclude, <<>>, now)

\* the promise of loadPromptHistoryForCwd(cwd, excludeSessionFile) rejects:
\* the file loop raises, and nothing catches it
loadPromptHistoryRejects(dir, exclude, now) ==
    /\ dir.readable
    /\ ScanFilesThrows(SortByMtimeDesc(SelectSeq(dir.files,
                                                 LAMBDA f : f.isJsonlFile /\ f.statOk)),
                       1, exclude, <<>>, now)

\* the readTail calls of loadPromptHistoryForCwd(cwd, excludeSessionFile)
loadPromptHistoryReads(dir, exclude, now) ==
    IF ~dir.readable THEN <<>>
    ELSE ScanFilesReads(SortByMtimeDesc(SelectSeq(dir.files,
                                                  LAMBDA f : f.isJsonlFile /\ f.statOk)),
                        1, exclude, <<>>, now)

\* ----------------------------------------------------------- HistoryEditor

\* the fields of a HistoryEditor after its constructor, the base editor
\* holding `txt`
NewHistoryEditor(txt) ==
    [ text |-> txt,
      promptHistory |-> <<>>,
      addedToHistory |-> <<>>,
      searchMode |-> FALSE,
      searchQuery |-> <<>>,
      searchResults |-> <<>>,
      searchIndex |-> -1,
      originalText |-> <<>> ]

\* setText(t) of the base editor
SetText(ed, t) == [ed EXCEPT !.text = t]

\* an entry that does not save the buffer
enterSearchModeNoSave(ed) ==
    [ed EXCEPT !.searchMode = TRUE,
               !.searchQuery = <<>>,
               !.searchResults = <<>>,
               !.searchIndex = -1]

enterSearchMode(ed) ==
    [ed EXCEPT !.searchMode = TRUE,
               !.searchQuery = <<>>,
               !.searchResults = <<>>,
               !.searchIndex = -1,
               !.originalText = ed.text]


\* a search whose catch branch leaves the previous matches in place
performSearchStaleOnError(ed) ==
    IF ed.searchQuery = <<>>
    THEN [ed EXCEPT !.searchResults = <<>>, !.searchIndex = -1]
    ELSE IF RegExpCompiles(ed.searchQuery)
    THEN LET results == SelectSeq(ed.promptHistory,
                                  LAMBDA entry : RegExpTest(ed.searchQuery, entry.text))
         IN  [ed EXCEPT !.searchResults = results,
                        !.searchIndex = IF Len(results) > 0 THEN 0 ELSE -1]
    ELSE ed

\* a search that keeps the cursor where it was when it still fits
performSearchKeepsCursor(ed) ==
    IF ed.searchQuery = <<>>
    THEN [ed EXCEPT !.searchResults = <<>>, !.searchIndex = -1]
    ELSE IF RegExpCompiles(ed.searchQuery)
    THEN LET results == SelectSeq(ed.promptHistory,
                                  LAMBDA entry : RegExpTest(ed.searchQuery, entry.text))
         IN  [ed EXCEPT !.searchResults = results,
                        !.searchIndex = IF ed.searchIndex \in 0..(Len(results) - 1)
                                        THEN ed.searchIndex
                                        ELSE IF Len(results) > 0 THEN 0 ELSE -1]
    ELSE [ed EXCEPT !.searchResults = <<>>, !.searchIndex = -1]

\* a search without the early return on an empty query
performSearchEmptyMatchesAll(ed) ==
    IF RegExpCompiles(ed.searchQuery)
    THEN LET results == SelectSeq(ed.promptHistory,
                                  LAMBDA entry : RegExpTest(ed.searchQuery, entry.text))
         IN  [ed EXCEPT !.searchResults = results,
                        !.searchIndex = IF Len(results) > 0 THEN 0 ELSE -1]
    ELSE [ed EXCEPT !.searchResults = <<>>, !.searchIndex = -1]

performSearch(ed) ==
    IF ed.searchQuery = <<>>
    THEN [ed EXCEPT !.searchResults = <<>>, !.searchIndex = -1]
    ELSE IF RegExpCompiles(ed.searchQuery)
    THEN LET results == SelectSeq(ed.promptHistory,
                                  LAMBDA entry : RegExpTest(ed.searchQuery, entry.text))
         IN  [ed EXCEPT !.searchResults = results,
                        !.searchIndex = IF Len(results) > 0 THEN 0 ELSE -1]
    ELSE [ed EXCEPT !.searchResults = <<>>, !.searchIndex = -1]


\* a next-match step that stops at the last match instead of wrapping
searchNextNoWrap(ed) ==
    IF Len(ed.searchResults) = 0 THEN ed
    ELSE [ed EXCEPT !.searchIndex = Min(ed.searchIndex + 1, Len(ed.searchResults) - 1)]

searchNext(ed) ==
    IF Len(ed.searchResults) = 0 THEN ed
    ELSE [ed EXCEPT !.searchIndex = (ed.searchIndex + 1) % Len(ed.searchResults)]


\* an exit that keeps whatever the buffer holds when there is nothing to accept
ExitTextKeepsBuffer(ed, accept) ==
    IF accept /\ ed.searchIndex >= 0
    THEN ed.searchResults[ed.searchIndex + 1].text
    ELSE ed.text

\* an exit that always accepts the first match
ExitTextFirstMatch(ed, accept) ==
    IF accept /\ ed.searchIndex >= 0
    THEN ed.searchResults[1].text
    ELSE ed.originalText

\* the text exitSearchMode sets: the match at the cursor on accept, else the
\* text saved at entry (searchResults is 0-based in the code)
ExitText(ed, accept) ==
    IF accept /\ ed.searchIndex >= 0
    THEN ed.searchResults[ed.searchIndex + 1].text
    ELSE ed.originalText

\* an exit that leaves the saved text in place
exitSearchModeKeepsSaved(ed, accept) ==
    [SetText(ed, ExitText(ed, accept))
        EXCEPT !.searchMode = FALSE,
               !.searchQuery = <<>>,
               !.searchResults = <<>>,
               !.searchIndex = -1]

exitSearchMode(ed, accept) ==
    [SetText(ed, ExitText(ed, accept))
        EXCEPT !.searchMode = FALSE,
               !.searchQuery = <<>>,
               !.searchResults = <<>>,
               !.searchIndex = -1,
               !.originalText = <<>>]

\* The base editor's handleInput (CustomEditor, not part of this repository's
\* sources), as far as the buffer goes, with the cursor at the end: printable
\* input (typed or pasted) is inserted, backspace deletes the last character,
\* Enter submits and Ctrl+U kills the line, which both empty the buffer; any
\* other key leaves the buffer alone.
IsPrintable(data) ==
    /\ Len(data) > 0
    /\ \A i \in 1..Len(data) : data[i] >= SPACE /\ data[i] # DEL

BaseText(txt, data) ==
    IF IsPrintable(data) THEN txt \o data
    ELSE IF data = <<DEL>> \/ data = <<BS>> THEN SubSeq(txt, 1, Len(txt) - 1)
    ELSE IF data = <<CR>> \/ data = <<21>> THEN <<>>
    ELSE txt

\* a test for regular characters that takes pasted text too
SearchKeyAnyLength(data) ==
    IF data = <<ESC>> THEN "escape"
    ELSE IF data = <<CR>> \/ data = <<LF>> THEN "enter"
    ELSE IF data = <<CtrlG>> THEN "ctrl-g"
    ELSE IF data = <<CtrlR>> THEN "ctrl-r"
    ELSE IF data = <<DEL>> \/ data = <<BS>> THEN "backspace"
    ELSE IF Len(data) >= 1 /\ data[1] >= SPACE THEN "char"
    ELSE "other"

\* which branch of handleSearchInput takes `data`
SearchKey(data) ==
    IF data = <<ESC>> THEN "escape"
    ELSE IF data = <<CR>> \/ data = <<LF>> THEN "enter"
    ELSE IF data = <<CtrlG>> THEN "ctrl-g"
    ELSE IF data = <<CtrlR>> THEN "ctrl-r"
    ELSE IF data = <<DEL>> \/ data = <<BS>> THEN "backspace"
    ELSE IF Len(data) = 1 /\ data[1] >= SPACE THEN "char"
    ELSE "other"

\* handleSearchInput(data); super.handleInput(data) leaves baseText in the
\* buffer
handleSearchInput(ed, data, baseText) ==
    LET key == SearchKey(data)
    IN  CASE key = "escape" -> exitSearchMode(ed, FALSE)
          [] key = "enter" -> exitSearchMode(ed, TRUE)
          [] key = "ctrl-g" -> exitSearchMode(ed, FALSE)
          [] key = "ctrl-r" -> searchNext(ed)
          [] key = "backspace" ->
                IF Len(ed.searchQuery) > 0
                THEN performSearch([ed EXCEPT !.searchQuery =
                                        SubSeq(ed.searchQuery, 1, Len(ed.searchQuery) - 1)])
                ELSE ed
          [] key = "char" ->
                performSearch([ed EXCEPT !.searchQuery = ed.searchQuery \o data])
          [] OTHER -> SetText(ed, baseText)

\* handleInput(data)
handleInput(ed, data, baseText) ==
    IF data = <<CtrlR>> /\ ~ed.searchMode THEN enterSearchMode(ed)
    ELSE IF ed.searchMode THEN handleSearchInput(ed, data, baseText)
    ELSE SetText(ed, baseText)

\* whether handleInput(data) reaches super.handleInput(data)
ForwardsToBase(ed, data) ==
    IF data = <<CtrlR>> /\ ~ed.searchMode THEN FALSE
    ELSE IF ed.searchMode THEN SearchKey(data) = "other"
    ELSE TRUE

\* the inputs handleInput(data) hands to super.handleInput, in order
BaseInputs(ed, data) == IF ForwardsToBase(ed, data) THEN <<data>> ELSE <<>>

\* ------------------------------------------------------------ render(width)

\* "\x1b[7m", "\x1b[27m": inverse video on and off
InverseOn == <<27, 91, 55, 109>>
InverseOff == <<27, 91, 50, 55, 109>>

\* the pattern matches the text at position start
AtomsMatchAt(atoms, text, start) ==
    /\ start + Len(atoms) - 1 <= Len(text)
    /\ \A k \in 1..Len(atoms) : AtomMatches(atoms[k], text[start + k - 1])

\* text.replace(regex, "\x1b[7m$1\x1b[27m") with the flags "gi": every match
\* from left to right, an empty match before every character and at the end
RECURSIVE HighlightFrom(_, _, _)
HighlightFrom(atoms, text, i) ==
    IF i > Len(text)
    THEN (IF atoms = <<>> THEN InverseOn \o InverseOff ELSE <<>>)
    ELSE IF atoms = <<>>
    THEN InverseOn \o InverseOff \o <<text[i]>> \o HighlightFrom(atoms, text, i + 1)
    ELSE IF AtomsMatchAt(atoms, text, i)
    THEN InverseOn \o SubSeq(text, i, i + Len(atoms) - 1) \o InverseOff
            \o HighlightFrom(atoms, text, i + Len(atoms))
    ELSE <<text[i]>> \o HighlightFrom(atoms, text, i + 1)

\* highlightMatch(text)
highlightMatch(ed, text) ==
    IF ed.searchQuery = <<>> THEN text
    ELSE IF RegExpCompiles(<<40>> \o ed.searchQuery \o <<41>>)
    THEN HighlightFrom(PatternAtoms(ed.searchQuery), text, 1)
    ELSE text

\* the text without its escape sequences (ESC "[" ... "m")
RECURSIVE StripAnsi(_, _, _)
StripAnsi(text, i, inEscape) ==
    IF i > Len(text) THEN <<>>
    ELSE IF inEscape THEN StripAnsi(text, i + 1, text[i] # 109)
    ELSE IF text[i] = ESC THEN StripAnsi(text, i + 1, TRUE)
    ELSE <<text[i]>> \o StripAnsi(text, i + 1, FALSE)

\* visibleWidth(text) of pi-tui, on ASCII text: the characters outside escape
\* sequences, one column each
visibleWidth(text) == Len(StripAnsi(text, 1, FALSE))

\* the shortest prefix of the text that shows n characters, escape sequences
\* kept
RECURSIVE TakeVisible(_, _, _, _)
TakeVisible(text, i, n, inEscape) ==
    IF i > Len(text) THEN <<>>
    ELSE IF inEscape THEN <<text[i]>> \o TakeVisible(text, i + 1, n, text[i] # 109)
    ELSE IF text[i] = ESC THEN <<text[i]>> \o TakeVisible(text, i + 1, n, TRUE)
    ELSE IF n = 0 THEN <<>>
    ELSE <<text[i]>> \o TakeVisible(text, i + 1, n - 1, FALSE)

Ellipsis == <<46, 46, 46>>
AnsiReset == <<27, 91, 48, 109>>

\* truncateToWidth(text, maxWidth, "...", false) of pi-tui: the text when it
\* fits, else a prefix, a reset and the ellipsis within maxWidth columns
truncateToWidth(text, maxWidth) ==
    IF visibleWidth(text) <= maxWidth THEN text
    ELSE IF maxWidth <= Len(Ellipsis) THEN Take(Ellipsis, maxWidth)
    ELSE TakeVisible(text, 1, maxWidth - Len(Ellipsis), FALSE) \o AnsiReset \o Ellipsis

\* super.render(width): the base editor draws the buffer on one line within
\* the width
BaseRender(txt, width) == << Take(txt, width) >>

\* `(reverse-i-search)\`${this.searchQuery}': `
SearchPrompt(query) == <<40, 114, 101, 118, 101, 114, 115, 101, 45, 105, 45, 115, 101, 97, 114, 99, 104, 41, 96>> \o query \o <<39, 58, 32>>

NoMatchText == <<40, 110, 111, 32, 109, 97, 116, 99, 104, 41>>
FailedText == <<40, 102, 97, 105, 108, 101, 100, 41>>

\* `[${this.searchIndex + 1}/${count}] hit Enter to select, Ctrl+G to cancel`
StatusLine(index, count) ==
    <<91>> \o NatToString(index + 1) \o <<47>> \o NatToString(count)
        \o <<93, 32, 104, 105, 116, 32, 69, 110, 116, 101, 114, 32, 116, 111, 32, 115, 101, 108, 101, 99, 116, 44, 32, 67, 116, 114, 108, 43, 71, 32, 116, 111, 32, 99, 97, 110, 99, 101, 108>>

\* render(width)
render(ed, width) ==
    LET lines == BaseRender(ed.text, width)
        searchPrompt == SearchPrompt(ed.searchQuery)
        overlay ==
            IF ed.searchIndex >= 0
            THEN LET match == ed.searchResults[ed.searchIndex + 1]
                     highlighted == highlightMatch(ed, match.text)
                     promptWidth == visibleWidth(searchPrompt)
                     maxContentWidth == Max(0, width - promptWidth)
                 IN  searchPrompt \o truncateToWidth(highlighted, maxContentWidth)
            ELSE searchPrompt \o NoMatchText
        status ==
            IF Len(ed.searchResults) > 0
            THEN << StatusLine(ed.searchIndex, Len(ed.searchResults)) >>
            ELSE IF ed.searchQuery # <<>> THEN << FailedText >>
            ELSE <<>>
    IN  IF ed.searchMode /\ Len(lines) > 0
        THEN [lines EXCEPT ![Len(lines)] = overlay] \o status
        ELSE lines

\* ------------------------------------------------ wiring and the refresh

\* setEditorHistory(pi, ctx, history): ctx.ui.setEditorComponent builds a new
\* HistoryEditor, which is handed every prompt text (addToHistory) and the
\* list (setHistory); the host keeps the buffer text across the swap.
\* ui is [editor, setCalls]; `call` names the call in the log of
\* setEditorComponent calls.
setEditorHistory(ui, history, call) ==
    [ editor |-> [NewHistoryEditor(ui.editor.text)
                    EXCEPT !.promptHistory = history,
                           !.addedToHistory = [i \in 1..Len(history) |-> history[i].text]],
      setCalls |-> Append(ui.setCalls, call) ]


\* a refresh that leaves the wiring to the background task
ApplyImmediateSkipped(ui, immediateHistory, call) == ui

\* the synchronous wiring of applyEditorWithHistory (line 404)
ApplyImmediate(ui, immediateHistory, call) == setEditorHistory(ui, immediateHistory, call)


\* a refresh that forgets the supersession check
IsCurrentLoadAlways(pass, counter) == TRUE

\* currentLoad !== loadCounter does not hold
IsCurrentLoad(pass, counter) == pass.currentLoad = counter


\* a refresh that forgets the buffer check
TextUnchangedAlways(pass, ed) == TRUE

\* ctx.ui.getEditorText() !== initialText does not hold
TextUnchanged(pass, ed) == ed.text = pass.initialText

\* what the continuation after `await loadPromptHistoryForCwd` does
RefreshOutcome(pass, counter, ed, previousPrompts) ==
    IF ~IsCurrentLoad(pass, counter) THEN "superseded"
    ELSE IF ~TextUnchanged(pass, ed) THEN "textChanged"
    ELSE IF historiesMatch(buildHistoryList(pass.currentPrompts, previousPrompts),
                           pass.immediateHistory) THEN "same"
    ELSE "applied"

\* ------------------------------------------------------------------- state

VARIABLES
    editor,       \* the editor component the host routes input to
    wired,        \* whether a HistoryEditor has been installed
    setCalls,     \* the setEditorComponent calls so far: [pass, full]
    loadCounter,  \* the module-level loadCounter
    passes,       \* the applyEditorWithHistory runs, in the order they started
    entryText,    \* the buffer text when search mode was last entered
    lastEv,       \* the last event: its kind, its input, its pass, its outcome,
                  \* the mode and cursor before it, what it passed to the base,
                  \* how many prompts its scan returned
    fnIn,         \* the arguments of the function under check (FnSpec)
    fnOut         \* its result

vars == <<editor, wired, setCalls, loadCounter, passes, entryText, lastEv, fnIn, fnOut>>

mainVars == <<editor, wired, setCalls, loadCounter, passes, entryText, lastEv>>

fnVars == <<fnIn, fnOut>>

\* --------------------------------------------------------------- the inputs

\* raw terminal input: the keys handleInput tells apart, pattern characters
\* ("a", "B", "(", ")", "."), a tab, Ctrl+U, an arrow key and a pasted "ab"
Inputs ==
    { <<CtrlR>>, <<ESC>>, <<CR>>, <<LF>>, <<CtrlG>>, <<DEL>>, <<BS>>,
      <<97>>, <<66>>, <<40>>, <<41>>, <<46>>,
      <<9>>, <<21>>, <<27, 91, 68>>, <<97, 98>> }

\* the input drawn while sessions start and switch: search, cancel, delete
\* and "a"
RefreshInputs == { <<CtrlR>>, <<ESC>>, <<DEL>>, <<97>> }

\* the buffer contents the base editor is driven to by its own editing:
\* "", "a", "b", "ab"
Buffers == { <<>>, <<97>>, <<98>>, <<97, 98>> }

\* a session as the session manager presents it: getSessionFile() and
\* getBranch()
Sessions ==
    { [file |-> NoFile, branch |-> <<>>],
      [file |-> "f1", branch |-> <<JsonRecords[1], JsonRecords[5]>>] }

\* the session searched in SearchSpec: "ab" at 3, "a" at 1, "a" at 3 and
\* records that are no prompts
SearchSession ==
    [file |-> "f1",
     branch |-> <<JsonRecords[3], JsonRecords[6], JsonRecords[1], JsonRecords[7],
                  JsonRecords[4]>>]

LogFile(path, mtimeMs, content) ==
    [path |-> path, isJsonlFile |-> TRUE, statOk |-> TRUE, mtimeMs |-> mtimeMs,
     readOk |-> TRUE, content |-> content]

UnreadableDir == [readable |-> FALSE, files |-> <<>>]

\* f1 holds "a" at 1 and an assistant message, f2 holds "a" at 3
SmallDir ==
    [readable |-> TRUE,
     files |-> << LogFile("f1", 1, <<Sym(1), LF, Sym(5), LF>>),
                  LogFile("f2", 2, <<Sym(4), LF>>) >>]

\* f1: "a" at 1, junk, an assistant message, "ab" at 3 before a CR LF;
\* f2: "a" at 3 and "B" without a timestamp; f3 is no .jsonl file, f4 cannot
\* be stat'ed, f5 cannot be read
BigDir ==
    [readable |-> TRUE,
     files |-> << LogFile("f1", 2, <<Sym(1), LF, 123, LF, Sym(5), LF, Sym(3), 13, LF>>),
                  LogFile("f2", 3, <<Sym(2), LF, Sym(8)>>),
                  [LogFile("f3", 4, <<Sym(2)>>) EXCEPT !.isJsonlFile = FALSE],
                  [LogFile("f4", 5, <<Sym(2)>>) EXCEPT !.statOk = FALSE],
                  [LogFile("f5", 6, <<Sym(2)>>) EXCEPT !.readOk = FALSE] >>]

\* f2 is a copy of f1: an assistant message and "a" at 1
DupDir ==
    [readable |-> TRUE,
     files |-> << LogFile("f1", 1, <<Sym(1), LF, Sym(5), LF>>),
                  LogFile("f2", 2, <<Sym(5), LF, Sym(1), LF>>) >>]

\* f1 holds "a" at 1 and a user message whose content array begins with null
NullDir ==
    [readable |-> TRUE,
     files |-> << LogFile("f1", 1, <<Sym(1), LF, Sym(9), LF>>) >>]

\* the session directory as a pass of Spec reads it
Dirs == { UnreadableDir, SmallDir, DupDir, NullDir }

\* Date.now() while a pass parses
Clock == {4}

NoEvent ==
    [kind |-> "none", data |-> <<>>, pass |-> 0, outcome |-> "none",
     typed |-> FALSE, searching |-> FALSE, cursor |-> -1, forwarded |-> <<>>,
     scanned |-> 0, width |-> 0, lines |-> <<>>]

\* a pass whose background task has returned
DonePass ==
    [ currentLoad |-> 0, initialText |-> <<>>, sessionFile |-> NoFile,
      currentPrompts |-> <<>>, immediateHistory |-> <<>>,
      outcome |-> "done", typed |-> FALSE ]

Init ==
    /\ editor = NewHistoryEditor(<<>>)
    /\ wired = FALSE
    /\ setCalls = <<>>
    /\ loadCounter = 0
    /\ passes = <<>>
    /\ entryText = <<>>
    /\ lastEv = NoEvent
    /\ fnIn = <<>>
    /\ fnOut = <<>>

\* ----------------------------------------------------------------- actions

\* session_start / session_switch without a UI: applyEditorWithHistory returns
SessionEventNoUI ==
    /\ lastEv' = [NoEvent EXCEPT !.kind = "noUI"]
    /\ UNCHANGED <<editor, wired, setCalls, loadCounter, passes, entryText, fnVars>>

\* session_start / session_switch with a UI: applyEditorWithHistory up to the
\* first await of its background task
SessionEvent(session, now) ==
    /\ Len(passes) < MaxPasses
    /\ LET currentPrompts == collectUserPromptsFromEntries(session.branch, now)
           immediateHistory == buildHistoryList(currentPrompts, <<>>)
           currentLoad == loadCounter + 1
           p == Len(passes) + 1
           ui == ApplyImmediate([editor |-> editor, setCalls |-> setCalls],
                                immediateHistory, [pass |-> p, full |-> FALSE])
       IN  /\ loadCounter' = currentLoad
           /\ editor' = ui.editor
           /\ setCalls' = ui.setCalls
           /\ wired' = (wired \/ Len(ui.setCalls) > Len(setCalls))
           /\ passes' = Append(passes,
                  [ currentLoad |-> currentLoad,
                    initialText |-> editor.text,
                    sessionFile |-> session.file,
                    currentPrompts |-> currentPrompts,
                    immediateHistory |-> immediateHistory,
                    outcome |-> "loading",
                    typed |-> FALSE ])
           /\ lastEv' = [NoEvent EXCEPT !.kind = "session", !.pass = p]
    /\ UNCHANGED <<entryText, fnVars>>

\* a background task that resumes only while its pass is the last one
\* started
FinishLoadOnlyLast(p, dir, now) ==
    /\ p \in 1..Len(passes)
    /\ p = Len(passes)
    /\ passes[p].outcome = "loading"
    /\ LET pass == passes[p]
           rejected == loadPromptHistoryRejects(dir, pass.sessionFile, now)
           previousPrompts == IF rejected THEN <<>>
                              ELSE loadPromptHistoryForCwd(dir, pass.sessionFile, now)
           outcome == IF rejected THEN "rejected"
                      ELSE RefreshOutcome(pass, loadCounter, editor, previousPrompts)
           ui == IF outcome = "applied"
                 THEN setEditorHistory([editor |-> editor, setCalls |-> setCalls],
                                       buildHistoryList(pass.currentPrompts, previousPrompts),
                                       [pass |-> p, full |-> TRUE])
                 ELSE [editor |-> editor, setCalls |-> setCalls]
       IN  /\ editor' = ui.editor
           /\ setCalls' = ui.setCalls
           /\ passes' = [passes EXCEPT ![p] = DonePass]
           /\ lastEv' = [NoEvent EXCEPT !.kind = "finish", !.pass = p,
                                        !.outcome = outcome, !.typed = pass.typed,
                                        !.scanned = Len(previousPrompts)]
    /\ UNCHANGED <<wired, loadCounter, entryText, fnVars>>

\* the background task of pass p resumes after loadPromptHistoryForCwd, which
\* read the session directory as `dir`, and returns
FinishLoad(p, dir, now) ==
    /\ p \in 1..Len(passes)
    /\ passes[p].outcome = "loading"
    /\ LET pass == passes[p]
           rejected == loadPromptHistoryRejects(dir, pass.sessionFile, now)
           previousPrompts == IF rejected THEN <<>>
                              ELSE loadPromptHistoryForCwd(dir, pass.sessionFile, now)
           outcome == IF rejected THEN "rejected"
                      ELSE RefreshOutcome(pass, loadCounter, editor, previousPrompts)
           ui == IF outcome = "applied"
                 THEN setEditorHistory([editor |-> editor, setCalls |-> setCalls],
                                       buildHistoryList(pass.currentPrompts, previousPrompts),
                                       [pass |-> p, full |-> TRUE])
                 ELSE [editor |-> editor, setCalls |-> setCalls]
       IN  /\ editor' = ui.editor
           /\ setCalls' = ui.setCalls
           /\ passes' = [passes EXCEPT ![p] = DonePass]
           /\ lastEv' = [NoEvent EXCEPT !.kind = "finish", !.pass = p,
                                        !.outcome = outcome, !.typed = pass.typed,
                                        !.scanned = Len(previousPrompts)]
    /\ UNCHANGED <<wired, loadCounter, entryText, fnVars>>

\* the host hands raw input to the installed editor
HandleInput(data) ==
    /\ wired
    /\ (SearchKey(data) = "char" /\ editor.searchMode) => Len(editor.searchQuery) < MaxQuery
    /\ ForwardsToBase(editor, data) => BaseText(editor.text, data) \in Buffers
    /\ LET baseText == BaseText(editor.text, data)
           edited == ForwardsToBase(editor, data) /\ baseText # editor.text
       IN  /\ editor' = handleInput(editor, data, baseText)
           /\ passes' = [p \in 1..Len(passes) |->
                           IF passes[p].outcome = "loading" /\ edited
                           THEN [passes[p] EXCEPT !.typed = TRUE]
                           ELSE passes[p]]
    /\ entryText' = IF data = <<CtrlR>> /\ ~editor.searchMode THEN editor.text ELSE entryText
    /\ lastEv' = [NoEvent EXCEPT !.kind = "input", !.data = data,
                                 !.searching = editor.searchMode,
                                 !.cursor = editor.searchIndex,
                                 !.forwarded = BaseInputs(editor, data)]
    /\ UNCHANGED <<wired, setCalls, loadCounter, fnVars>>

\* the terminal widths the host renders at: narrower than the prompt prefix,
\* a few columns wider than it, and wide
Widths == { 20, 25, 40 }

\* the host draws the installed editor
Render(width) ==
    /\ wired
    /\ lastEv' = [NoEvent EXCEPT !.kind = "render", !.width = width,
                                 !.searching = editor.searchMode,
                                 !.lines = render(editor, width)]
    /\ UNCHANGED <<editor, wired, setCalls, loadCounter, passes, entryText, fnVars>>

Next ==
    \/ SessionEventNoUI
    \/ \E session \in Sessions, now \in Clock : SessionEvent(session, now)
    \/ \E p \in 1..MaxPasses, dir \in Dirs, now \in Clock : FinishLoad(p, dir, now)
    \/ \E data \in RefreshInputs : HandleInput(data)

Spec == Init /\ [][Next]_vars

\* ------------------------------------------- the refresh under fairness

\* the input drawn while the passes are followed to their end: "a" and delete
FairInputs == { <<97>>, <<DEL>> }

FairNext ==
    \/ SessionEventNoUI
    \/ \E session \in Sessions, now \in Clock : SessionEvent(session, now)
    \/ \E p \in 1..MaxPasses, dir \in Dirs, now \in Clock : FinishLoad(p, dir, now)
    \/ \E data \in FairInputs : HandleInput(data)

\* The background task of a pass awaits file-system promises only (readdir,
\* stat, open, read, close), which settle; the event loop then resumes the
\* task, whatever input and session events arrive meanwhile.
FairSpec ==
    /\ Init
    /\ [][FairNext]_vars
    /\ \A p \in 1..MaxPasses :
          WF_vars(\E dir \in Dirs, now \in Clock : FinishLoad(p, dir, now))

\* ------------------------------------------------- the search machine alone

\* the editor wiring after one whole pass of applyEditorWithHistory from the
\* initial state: the immediate wiring, then the background task with the
\* buffer untouched
AfterPass(session, dir, now) ==
    LET currentPrompts == collectUserPromptsFromEntries(session.branch, now)
        immediateHistory == buildHistoryList(currentPrompts, <<>>)
        ui == ApplyImmediate([editor |-> NewHistoryEditor(<<>>), setCalls |-> <<>>],
                             immediateHistory, [pass |-> 1, full |-> FALSE])
        pass == [ currentLoad |-> 1, initialText |-> <<>>, sessionFile |-> session.file,
                  currentPrompts |-> currentPrompts,
                  immediateHistory |-> immediateHistory,
                  outcome |-> "loading", typed |-> FALSE ]
        previousPrompts == loadPromptHistoryForCwd(dir, session.file, now)
    IN  IF RefreshOutcome(pass, 1, ui.editor, previousPrompts) = "applied"
        THEN setEditorHistory(ui, buildHistoryList(currentPrompts, previousPrompts),
                              [pass |-> 1, full |-> TRUE])
        ELSE ui

\* the session directory as the pass before a search reads it
SearchDirs == { UnreadableDir, BigDir }

\* a session has started and its background pass has returned
SearchInit ==
    \E dir \in SearchDirs, now \in Clock :
        LET ui == AfterPass(SearchSession, dir, now)
        IN  /\ editor = ui.editor
            /\ wired = TRUE
            /\ setCalls = ui.setCalls
            /\ loadCounter = 1
            /\ passes = <<DonePass>>
            /\ entryText = <<>>
            /\ lastEv = NoEvent
            /\ fnIn = <<>>
            /\ fnOut = <<>>

SearchNext ==
    \/ \E data \in Inputs : HandleInput(data)
    \/ \E width \in Widths : Render(width)

SearchSpec == SearchInit /\ [][SearchNext]_vars

\* ----------------------------------------------- the pure functions alone

\* how far the generated lists go beyond MAX_HISTORY_ENTRIES
MaxExtra == 2

\* the i-th of n generated prompts: ascending timestamps, descending
\* timestamps, one timestamp with distinct texts, a few prompts repeated over
\* and over, every timestamp shared by two texts
GenPrompt(pattern, i, n) ==
    CASE pattern = "ascending" -> [text |-> <<97>>, timestamp |-> i]
      [] pattern = "descending" -> [text |-> <<97>>, timestamp |-> n - i + 1]
      [] pattern = "sameTime" -> [text |-> NatToString(i), timestamp |-> 7]
      [] pattern = "repeats" -> [text |-> <<97 + (i % 2)>>, timestamp |-> i % 3]
      [] pattern = "pairs" -> [text |-> <<97 + (i % 2)>>, timestamp |-> (i + 1) \div 2]

GenPrompts(pattern, n) == [i \in 1..n |-> GenPrompt(pattern, i, n)]

Patterns == {"ascending", "descending", "sameTime", "repeats", "pairs"}

GenLengths == (0..3) \cup ((MAX_HISTORY_ENTRIES - 1)..(MAX_HISTORY_ENTRIES + MaxExtra))

\* the prompts of other sessions: none; "a" at 1 and "a" at 50; "11" at 1 and
\* "1" at 11; "a" at 60 twice with ":a" at 60 and "a" at 2000
GenPrevious ==
    { <<>>,
      <<[text |-> <<97>>, timestamp |-> 50], [text |-> <<97>>, timestamp |-> 1]>>,
      <<[text |-> <<49, 49>>, timestamp |-> 1], [text |-> <<49>>, timestamp |-> 11]>>,
      <<[text |-> <<97>>, timestamp |-> 60], [text |-> <<58, 97>>, timestamp |-> 60],
        [text |-> <<97>>, timestamp |-> 2000], [text |-> <<97>>, timestamp |-> 60]>> }

MainIdle ==
    /\ editor = NewHistoryEditor(<<>>)
    /\ wired = FALSE
    /\ setCalls = <<>>
    /\ loadCounter = 0
    /\ passes = <<>>
    /\ entryText = <<>>
    /\ lastEv = NoEvent

\* longest file handed to readTail
MaxFile == 4

\* file contents: lines of "a"s, with and without a final newline
TailContents == UNION { [1..n -> {LF, 97}] : n \in 0..MaxFile }

\* byte budgets: less than, exactly and more than the file
TailBudgets == 1..(MaxFile + 1)

\* "hi" and "hello"
Hi == <<104, 105>>
Hello == <<104, 101, 108, 108, 111>>

\* the text before, between and after the skill blocks of a message: nothing,
\* "hello", blanks, the review heading alone, with a newline, in lower case
\* with blanks and text after it, and with more text on its line
LeadingTexts ==
    { <<>>, Hello, <<SPACE, LF>>,
      ReviewHeading,
      ReviewHeading \o <<LF>>,
      [i \in 1..Len(ReviewHeading) |-> Fold(ReviewHeading[i])] \o <<SPACE, LF, LF>> \o Hi,
      ReviewHeading \o <<SPACE, 118, 50, LF>> \o Hi,
      <<SPACE>> \o ReviewHeading \o <<LF>> }

InnerTexts == { <<>>, Hi, <<SPACE>> }

TrailingTexts == { <<>>, Hello, <<LF>> }

\* no block; <skill name="x">...</skill>; a block in upper case over three
\* lines with a ">" in its body
SkillBlocks ==
    { <<>>,
      SkillOpen \o <<SPACE, 110, 97, 109, 101, 61, 34, 120, 34, 62>>
                \o <<46, 46, 46>> \o SkillClose,
      <<60, 83, 75, 73, 76, 76>> \o <<LF, 110, 62>>
                \o <<97, 62, 98, LF, 121>> \o <<60, 47, 83, 107, 105, 108, 108, 62>> }

\* a user message with the given text: in one text segment, or cut in two
\* text segments (inside the first skill block, if any) around a segment of
\* another type and a text segment without text
MessageOf(plain, blocks, split) ==
    LET first == plain[1] \o SubSeq(blocks[1], 1, Len(blocks[1]) \div 2)
        second == SubSeq(blocks[1], Len(blocks[1]) \div 2 + 1, Len(blocks[1]))
                    \o plain[2] \o blocks[2] \o plain[3]
        segment(txt) == [type |-> "text", hasText |-> TRUE, text |-> txt]
    IN  [UserEntry(<<>>, 1, NoTimestamp) EXCEPT !.content =
            IF split
            THEN << segment(first),
                    [type |-> "image", hasText |-> TRUE, text |-> Hi],
                    [type |-> "text", hasText |-> FALSE, text |-> <<>>],
                    segment(second) >>
            ELSE << segment(first \o second) >>]

\* how far the prompts of one generated log go beyond MAX_RECENT_PROMPTS
MaxSpare == 1

\* the record of the j-th prompt line of the generated log `path`: "a" at 1
\* and "a" at 3 in turn in f1, "bA" at 2 in f2, "ab" at 3 in f3
GenRecord(path, j) ==
    IF path = "f1" THEN (IF j % 2 = 1 THEN 1 ELSE 4)
    ELSE IF path = "f2" THEN 2
    ELSE 3

\* a log of n prompt lines behind a line of junk and an assistant message
GenLog(path, mtimeMs, n) ==
    LogFile(path, mtimeMs,
            IF n = 0 THEN <<>>
            ELSE <<123, LF, Sym(5), LF>>
                    \o [k \in 1..(2 * n) |->
                            IF k % 2 = 1 THEN Sym(GenRecord(path, (k + 1) \div 2)) ELSE LF])

GenDir(mtimes, counts) ==
    [readable |-> TRUE,
     files |-> << GenLog("f1", mtimes[1], counts[1]),
                  GenLog("f2", mtimes[2], counts[2]),
                  GenLog("f3", mtimes[3], counts[3]) >>]

\* prompt lines per log: f1 none, a few, one less than the budget, the
\* budget, more; f2 none, one, the budget; f3 two
GenCounts ==
    { <<n1, n2, 2>> :
        n1 \in {0, 2} \cup ((MAX_RECENT_PROMPTS - 1)..(MAX_RECENT_PROMPTS + MaxSpare)),
        n2 \in {0, 1, MAX_RECENT_PROMPTS} }

\* what goes wrong with one log of the directory, or with the directory:
\* the log is gone when it is stat-ed, it is gone or unreadable when it is
\* read, it is empty, the directory cannot be listed
GenFaults == { "none", "statFails", "readFails", "empty", "dirFails" }

\* what is wrong with one line of a log: it is no JSON, it is no message
\* record, it is an assistant message, its content is no array, its
\* content array holds null
GenLineFaults == { "parseFails", "noMessage", "notUser", "noContentArray", "nullItem" }

FaultyLine(fault) ==
    CASE fault = "parseFails" -> <<123, 34>>
      [] fault = "noMessage" -> <<Sym(6)>>
      [] fault = "notUser" -> <<Sym(5)>>
      [] fault = "noContentArray" -> <<Sym(10)>>
      [] fault = "nullItem" -> <<Sym(9)>>

\* the content with the line put after its line number `after`
RECURSIVE InsertLineAfter(_, _, _)
InsertLineAfter(content, after, line) ==
    IF after = 0 \/ content = <<>> THEN line \o <<LF>> \o content
    ELSE <<Head(content)>>
            \o InsertLineAfter(Tail(content),
                                IF Head(content) = LF THEN after - 1 ELSE after, line)

\* a faulty line stands after the first prompt line of the log, third line
\* of a generated log that holds prompts
FaultyLog(file, fault) ==
    CASE fault = "statFails" -> [file EXCEPT !.statOk = FALSE, !.readOk = FALSE]
      [] fault = "readFails" -> [file EXCEPT !.readOk = FALSE]
      [] fault = "empty" -> [file EXCEPT !.content = <<>>]
      [] fault \in GenLineFaults ->
            [file EXCEPT !.content = InsertLineAfter(file.content, 3, FaultyLine(fault))]
      [] OTHER -> file

\* the directory with the fault at its log `faulty`
FaultyDir(dir, fault, faulty) ==
    [readable |-> fault # "dirFails",
     files |-> [i \in 1..Len(dir.files) |->
                   IF i = faulty THEN FaultyLog(dir.files[i], fault) ELSE dir.files[i]]]

\* modification times of f1, f2, f3
GenMtimes == { <<3, 2, 1>>, <<1, 3, 2>>, <<2, 1, 3>> }

\* the active session file
GenExcludes == { NoFile, "f1", "f3" }

\* longest working-directory path handed to getSessionDirForCwd
MaxPath == 4

\* path.resolve(cwd) on POSIX: absolute, no empty segment, no trailing
\* separator but for the root; segments are made of "a" and "-"
ResolvedPaths ==
    { path \in UNION { [1..n -> {Slash, Dash, 97}] : n \in 1..MaxPath } :
        /\ path[1] = Slash
        /\ Len(path) > 1 => path[Len(path)] # Slash
        /\ \A k \in 1..(Len(path) - 1) : ~(path[k] = Slash /\ path[k + 1] = Slash) }

\* the snippet names and texts of the generated config files
GenSnippetNames == { "bug", "test" }
GenSnippetTexts == { "", "a", "b" }

\* the collections over these names and texts
GenSnippetConfigs ==
    { config \in SUBSET (GenSnippetNames \X GenSnippetTexts) :
        \A e1 \in config, e2 \in config : e1[1] = e2[1] => e1 = e2 }

FnInit ==
    /\ MainIdle
    /\ \/ \E pattern \in Patterns, n \in GenLengths, previous \in GenPrevious :
             fnIn = [op |-> "buildHistoryList", done |-> FALSE,
                     currentSession |-> GenPrompts(pattern, n),
                     previousSessions |-> previous]
       \/ \E p1 \in LeadingTexts, p2 \in InnerTexts, p3 \in TrailingTexts,
                b1 \in SkillBlocks, b2 \in SkillBlocks, split \in BOOLEAN :
             fnIn = [op |-> "collectUserPromptsFromEntries", done |-> FALSE,
                     plain |-> <<p1, p2, p3>>, blocks |-> <<b1, b2>>, split |-> split,
                     entries |-> <<MessageOf(<<p1, p2, p3>>, <<b1, b2>>, split)>>]
       \/ \E mtimes \in GenMtimes, counts \in GenCounts, exclude \in GenExcludes,
               fault \in GenFaults \cup GenLineFaults, faulty \in 1..3 :
             /\ fault \in {"none", "dirFails"} => faulty = 1
             /\ fault # "none" => counts[1] \in {2, MAX_RECENT_PROMPTS} /\ counts[2] = 1
             /\ fnIn = [op |-> "loadPromptHistoryForCwd", done |-> FALSE,
                        mtimes |-> mtimes, counts |-> counts, exclude |-> exclude,
                        fault |-> fault, faulty |-> faulty,
                        dir |-> FaultyDir(GenDir(mtimes, counts), fault, faulty)]
       \/ \E globalConfig \in GenSnippetConfigs, projectConfig \in GenSnippetConfigs,
               name \in GenSnippetNames, confirmed \in BOOLEAN :
             fnIn = [op |-> "snippet delete", done |-> FALSE,
                     disk |-> [global |-> globalConfig, project |-> projectConfig],
                     name |-> name, confirmed |-> confirmed]
       \/ \E cwd1 \in ResolvedPaths, cwd2 \in ResolvedPaths :
             fnIn = [op |-> "getSessionDirForCwd", done |-> FALSE,
                     cwd1 |-> cwd1, cwd2 |-> cwd2]
       \/ \E content \in TailContents, readOk \in BOOLEAN, maxBytes \in TailBudgets :
             fnIn = [op |-> "readTail", done |-> FALSE,
                     content |-> content, readOk |-> readOk, maxBytes |-> maxBytes]
    /\ fnOut = <<>>

CallBuildHistoryList ==
    /\ fnIn.op = "buildHistoryList"
    /\ ~fnIn.done
    /\ fnOut' = buildHistoryList(fnIn.currentSession, fnIn.previousSessions)
    /\ fnIn' = [fnIn EXCEPT !.done = TRUE]
    /\ UNCHANGED mainVars

CallReadTail ==
    /\ fnIn.op = "readTail"
    /\ ~fnIn.done
    /\ fnOut' = readTail(fnIn.content, fnIn.readOk, fnIn.maxBytes)
    /\ fnIn' = [fnIn EXCEPT !.done = TRUE]
    /\ UNCHANGED mainVars

CallCollectUserPrompts ==
    /\ fnIn.op = "collectUserPromptsFromEntries"
    /\ ~fnIn.done
    /\ \E now \in Clock : fnOut' = collectUserPromptsFromEntries(fnIn.entries, now)
    /\ fnIn' = [fnIn EXCEPT !.done = TRUE]
    /\ UNCHANGED mainVars

CallLoadPromptHistory ==
    /\ fnIn.op = "loadPromptHistoryForCwd"
    /\ ~fnIn.done
    /\ \E now \in Clock :
          fnOut' = IF loadPromptHistoryRejects(fnIn.dir, fnIn.exclude, now)
                   THEN [prompts |-> <<>>, reads |-> <<>>, rejected |-> TRUE]
                   ELSE [prompts |-> loadPromptHistoryForCwd(fnIn.dir, fnIn.exclude, now),
                         reads |-> loadPromptHistoryReads(fnIn.dir, fnIn.exclude, now),
                         rejected |-> FALSE]
    /\ fnIn' = [fnIn EXCEPT !.done = TRUE]
    /\ UNCHANGED mainVars

\* the session directories of two working directories
CallGetSessionDir ==
    /\ fnIn.op = "getSessionDirForCwd"
    /\ ~fnIn.done
    /\ fnOut' = <<getSessionDirForCwd(fnIn.cwd1), getSessionDirForCwd(fnIn.cwd2)>>
    /\ fnIn' = [fnIn EXCEPT !.done = TRUE]
    /\ UNCHANGED mainVars

\* /snippet delete <name>, the confirmation dialog answered
CallSnippetDelete ==
    /\ fnIn.op = "snippet delete"
    /\ ~fnIn.done
    /\ fnOut' = SnippetDeleteCommand(fnIn.disk, fnIn.name, fnIn.confirmed)
    /\ fnIn' = [fnIn EXCEPT !.done = TRUE]
    /\ UNCHANGED mainVars

FnNext ==
    \/ CallBuildHistoryList
    \/ CallSnippetDelete
    \/ CallGetSessionDir
    \/ CallLoadPromptHistory
    \/ CallCollectUserPrompts
    \/ CallReadTail

FnSpec == FnInit /\ [][FnNext]_vars

\* ------------------------------------------------------------- properties

FullCalls == {j \in 1..Len(setCalls) : setCalls[j].full}

\* C1 (Supersession): a full result is only ever applied for the pass that was
\* started last: when setEditorComponent is called with the full list of pass
\* p, no pass started after p has been wired before that call, and the pass
\* whose background task just applied its result is the last one started.
C1_Supersession ==
    /\ \A j \in FullCalls : \A i \in 1..(j - 1) : setCalls[i].pass <= setCalls[j].pass
    /\ (lastEv.kind = "finish" /\ lastEv.outcome = "applied") => lastEv.pass = Len(passes)

\* pass 1 returns after pass 2 has started and applied its result, and is
\* suppressed
C1_Witness ==
    /\ Len(passes) = 2
    /\ lastEv.kind = "finish" /\ lastEv.pass = 1 /\ lastEv.outcome = "superseded"
    /\ passes[2].outcome = "done"
    /\ \E j \in FullCalls : setCalls[j].pass = 2

\* C2 as stated: a background result is applied only if the user has not
\* edited the buffer between the start of the pass and its completion.
C2_AppliedOnlyIfNeverEdited ==
    (lastEv.kind = "finish" /\ lastEv.outcome = "applied") => ~lastEv.typed

\* C2 (amended): a background result is applied only if the buffer text when
\* the background task returns equals the text captured when the pass began.
C2_AppliedOnlyIfTextEqual ==
    [][(lastEv'.kind = "finish" /\ lastEv'.outcome = "applied")
          => editor.text = passes[lastEv'.pass].initialText]_vars

\* a pass started on a non-empty buffer applies its full result
C2_Witness ==
    /\ lastEv.kind = "finish" /\ lastEv.outcome = "applied"
    /\ editor.text # <<>>

\* C3 (Immediate history first): every pass wires its immediate history in
\* the step that starts it, while its background task is still loading; that
\* list is buildHistoryList of the session's own prompts alone; and a full
\* list is never wired for a pass before its immediate one.
C3_ImmediateFirst ==
    /\ \A p \in 1..Len(passes) :
          \E i \in 1..Len(setCalls) : setCalls[i] = [pass |-> p, full |-> FALSE]
    /\ \A j \in FullCalls :
          \E i \in 1..(j - 1) : setCalls[i] = [pass |-> setCalls[j].pass, full |-> FALSE]
    /\ lastEv.kind = "session" =>
          LET pass == passes[lastEv.pass]
          IN  /\ pass.outcome = "loading"
              /\ setCalls[Len(setCalls)] = [pass |-> lastEv.pass, full |-> FALSE]
              /\ editor.promptHistory = buildHistoryList(pass.currentPrompts, <<>>)

\* a session with prompts of its own has just started
C3_Witness ==
    /\ lastEv.kind = "session"
    /\ passes[lastEv.pass].outcome = "loading"
    /\ Len(editor.promptHistory) > 0

InputStep(keys) ==
    /\ lastEv'.kind = "input"
    /\ editor.searchMode
    /\ SearchKey(lastEv'.data) \in keys

SearchCleared(ed) ==
    /\ ~ed.searchMode
    /\ ed.searchQuery = <<>>
    /\ ed.searchResults = <<>>
    /\ ed.searchIndex = -1

\* C4 (Cancel restores state): Escape or Ctrl+G received while Searching
\* leaves the buffer holding exactly the text it held when the search was
\* entered, whatever was typed or passed on to the base editor in between,
\* and returns to Idle.
C4_CancelRestores ==
    [][InputStep({"escape", "ctrl-g"})
          => (editor'.text = entryText /\ ~editor'.searchMode)]_vars

\* a search entered on a non-empty buffer has been cancelled with Ctrl+G
C4_Witness ==
    /\ lastEv.kind = "input" /\ lastEv.searching /\ lastEv.data = <<CtrlG>>
    /\ ~editor.searchMode
    /\ editor.text # <<>>

\* C5 (Accept with a match): Enter received while Searching with the cursor
\* on a match sets the buffer to the text of the match at the cursor and
\* returns to Idle with query, matches and cursor cleared.
C5_AcceptMatch ==
    [][(InputStep({"enter"}) /\ editor.searchIndex >= 0)
          => /\ editor.searchIndex < Len(editor.searchResults)
             /\ editor'.text = editor.searchResults[editor.searchIndex + 1].text
             /\ SearchCleared(editor')]_vars

\* "bA", the second match of a query, has been accepted over another buffer
C5_Witness ==
    /\ lastEv.kind = "input" /\ lastEv.searching /\ lastEv.data = <<CR>>
    /\ editor.text = <<98, 65>>
    /\ entryText # <<98, 65>>

\* no entry of the editor's history matches its query
NoEntryMatches(ed) ==
    \A i \in 1..Len(ed.promptHistory) :
        \/ ed.searchQuery = <<>>
        \/ ~RegExpCompiles(ed.searchQuery)
        \/ ~RegExpTest(ed.searchQuery, ed.promptHistory[i].text)

\* C6 (Accept with no match): Enter received while Searching with a query
\* that matches no history entry (or with no query) leaves the buffer holding
\* the text it held when the search was entered.
C6_AcceptNoMatch ==
    [][(InputStep({"enter"}) /\ NoEntryMatches(editor))
          => (editor'.text = entryText /\ ~editor'.searchMode)]_vars

\* a search on a non-empty buffer was accepted with nothing accepted
C6_Witness ==
    /\ lastEv.kind = "input" /\ lastEv.searching /\ lastEv.data = <<CR>>
    /\ editor.text = entryText
    /\ editor.text # <<>>
    /\ \A i \in 1..Len(editor.promptHistory) : editor.promptHistory[i].text # editor.text

\* C7 (Search cycling): Ctrl+R received while Searching with n > 0 matches
\* moves the cursor to (cursor + 1) mod n and changes nothing else; with no
\* match it changes nothing.
C7_SearchCycling ==
    [][InputStep({"ctrl-r"})
          => IF Len(editor.searchResults) > 0
             THEN /\ editor.searchIndex \in 0..(Len(editor.searchResults) - 1)
                  /\ editor' = [editor EXCEPT !.searchIndex =
                                   (editor.searchIndex + 1) % Len(editor.searchResults)]
             ELSE editor' = editor]_vars

\* the cursor has wrapped from the last of three matches to the first
C7_Witness ==
    /\ lastEv.kind = "input" /\ lastEv.searching /\ lastEv.data = <<CtrlR>>
    /\ Len(editor.searchResults) = 3
    /\ editor.searchIndex = 0

\* the call of buildHistoryList has returned fnOut
Built == fnIn.op = "buildHistoryList" /\ fnIn.done

\* the distinct (timestamp, text) pairs handed to buildHistoryList
InputPrompts == Range(fnIn.currentSession \o fnIn.previousSessions)

Ascending(list) ==
    \A i, j \in 1..Len(list) : i < j => list[i].timestamp <= list[j].timestamp

\* C8 (Cap invariant): the list has at most 100 entries, and when the input
\* holds more than 100 distinct (timestamp, text) pairs the list holds 100 of
\* them, no dropped pair is newer than a kept one, and they are in ascending
\* order.
C8_Cap ==
    Built =>
        /\ Len(fnOut) <= MAX_HISTORY_ENTRIES
        /\ Cardinality(InputPrompts) > MAX_HISTORY_ENTRIES =>
              /\ Len(fnOut) = MAX_HISTORY_ENTRIES
              /\ Cardinality(Range(fnOut)) = MAX_HISTORY_ENTRIES
              /\ Range(fnOut) \subseteq InputPrompts
              /\ \A dropped \in InputPrompts \ Range(fnOut) :
                    \A kept \in Range(fnOut) : dropped.timestamp <= kept.timestamp
              /\ Ascending(fnOut)

\* more than 100 distinct prompts went in, given newest first, and the oldest
\* were dropped
C8_Witness ==
    /\ Built
    /\ Cardinality(InputPrompts) > MAX_HISTORY_ENTRIES
    /\ Len(fnOut) = MAX_HISTORY_ENTRIES
    /\ fnIn.currentSession[1].timestamp > fnIn.currentSession[2].timestamp
    /\ \E dropped \in InputPrompts \ Range(fnOut) : dropped.timestamp < fnOut[1].timestamp

\* C9 (Dedup invariant): no two entries of the list have the same
\* (timestamp, text); every entry comes from the input; and, the cap aside,
\* every distinct (timestamp, text) pair of the input is in the list.
C9_Dedup ==
    Built =>
        /\ \A i, j \in 1..Len(fnOut) : i # j => fnOut[i] # fnOut[j]
        /\ Range(fnOut) \subseteq InputPrompts
        /\ Len(fnOut) = Min(Cardinality(InputPrompts), MAX_HISTORY_ENTRIES)
        /\ Cardinality(InputPrompts) <= MAX_HISTORY_ENTRIES => Range(fnOut) = InputPrompts

\* the input repeated a pair, and the list keeps both two entries of one text
\* and two entries of one timestamp
C9_Witness ==
    /\ Built
    /\ Len(fnIn.currentSession \o fnIn.previousSessions) > Cardinality(InputPrompts)
    /\ \E i, j \in 1..Len(fnOut) :
          fnOut[i].text = fnOut[j].text /\ fnOut[i].timestamp # fnOut[j].timestamp
    /\ \E i, j \in 1..Len(fnOut) :
          fnOut[i].text # fnOut[j].text /\ fnOut[i].timestamp = fnOut[j].timestamp

\* C10 (Ordering invariant): every list buildHistoryList returns, with or
\* without prompts of other sessions, is ascending by timestamp.
C10_Ordering == Built => Ascending(fnOut)

\* a list given newest first, merged with prompts of other sessions
C10_Witness ==
    /\ Built
    /\ Len(fnOut) > 2
    /\ ~Ascending(fnIn.currentSession)
    /\ fnIn.previousSessions # <<>>

\* the call of readTail has returned fnOut, stat, open and read having
\* succeeded
TailRead == fnIn.op = "readTail" /\ fnIn.done /\ fnIn.readOk

\* the positions of the file inside the read window (its last B bytes) that
\* hold a newline
WindowNewlines ==
    {k \in (Len(fnIn.content) - fnIn.maxBytes + 1)..Len(fnIn.content) :
        k >= 1 /\ fnIn.content[k] = LF}

FirstWindowNewline == CHOOSE k \in WindowNewlines : \A j \in WindowNewlines : k <= j

\* the file from position k on
FileFrom(k) == SubSeq(fnIn.content, k, Len(fnIn.content))

\* C11 as stated: with B >= S the whole file is returned; with B < S the
\* result starts immediately after the first newline of the last B bytes.
C11_TailDropsFirstLine ==
    TailRead =>
        IF fnIn.maxBytes >= Len(fnIn.content)
        THEN fnOut = fnIn.content
        ELSE /\ WindowNewlines # {}
             /\ fnOut = FileFrom(FirstWindowNewline + 1)

\* C11 (amended): with B >= S the whole file is returned; with B < S the
\* result is the file after the first newline of its last B bytes when they
\* hold a newline, and the last B bytes as they are when they hold none.
C11_TailRead ==
    TailRead =>
        IF fnIn.maxBytes >= Len(fnIn.content)
        THEN fnOut = fnIn.content
        ELSE IF WindowNewlines # {}
             THEN fnOut = FileFrom(FirstWindowNewline + 1)
             ELSE fnOut = FileFrom(Len(fnIn.content) - fnIn.maxBytes + 1)

\* a budget that cut a line: the cut line was dropped and a later line kept
C11_Witness ==
    /\ TailRead
    /\ fnIn.maxBytes < Len(fnIn.content)
    /\ WindowNewlines # {}
    /\ fnIn.content[Len(fnIn.content) - fnIn.maxBytes + 1] # LF
    /\ fnIn.content[Len(fnIn.content) - fnIn.maxBytes] # LF
    /\ fnOut # <<>>

\* the call of collectUserPromptsFromEntries on one user message has returned
Collected == fnIn.op = "collectUserPromptsFromEntries" /\ fnIn.done

\* the text of the message once its skill blocks are gone
Remainder == fnIn.plain[1] \o fnIn.plain[2] \o fnIn.plain[3]

AllSpace(s) == \A i \in 1..Len(s) : IsSpace(s[i])

\* t is s without its leading and trailing whitespace
IsTrimOf(t, s) ==
    \E lead \in 0..(Len(s) - Len(t)) :
        /\ t = SubSeq(s, lead + 1, lead + Len(t))
        /\ AllSpace(SubSeq(s, 1, lead))
        /\ AllSpace(SubSeq(s, lead + Len(t) + 1, Len(s)))
        /\ t # <<>> => (~IsSpace(t[1]) /\ ~IsSpace(t[Len(t)]))

\* the message produced one prompt, the trimmed remainder
OnePromptOfRemainder ==
    /\ Len(fnOut) = 1
    /\ fnOut[1].text # <<>>
    /\ IsTrimOf(fnOut[1].text, Remainder)
    /\ fnOut[1].timestamp = fnIn.entries[1].mts

\* the remainder begins with "# Review Guidelines", in any case
BeginsWithHeading ==
    /\ Len(Remainder) >= Len(ReviewHeading)
    /\ \A i \in 1..Len(ReviewHeading) : Fold(Remainder[i]) = Fold(ReviewHeading[i])

\* the whitespace that follows the heading holds a newline
HeadingLineEnds ==
    \E nl \in (Len(ReviewHeading) + 1)..Len(Remainder) :
        /\ Remainder[nl] = LF
        /\ AllSpace(SubSeq(Remainder, Len(ReviewHeading) + 1, nl))

\* C12 as stated: a message whose text, skill blocks stripped, consists of or
\* begins with the heading "# Review Guidelines" produces no prompt, whatever
\* follows the heading.
C12_HeadingFiltered == (Collected /\ BeginsWithHeading) => fnOut = <<>>

\* C12 (amended): a message whose text, skill blocks stripped, begins with
\* the heading followed by whitespace that holds a newline produces no
\* prompt; when the heading ends the text or other text follows on its line,
\* the message produces the trimmed text as a prompt.
C12_HeadingLineFiltered ==
    (Collected /\ BeginsWithHeading) =>
        IF HeadingLineEnds THEN fnOut = <<>> ELSE OnePromptOfRemainder

\* the heading, in lower case behind a stripped skill block and with text
\* after a blank line, was filtered
C12_Witness ==
    /\ Collected
    /\ fnIn.blocks[1] # <<>>
    /\ BeginsWithHeading /\ HeadingLineEnds
    /\ Remainder[3] # ReviewHeading[3]
    /\ ~AllSpace(SubSeq(Remainder, Len(ReviewHeading) + 1, Len(Remainder)))
    /\ fnOut = <<>>

\* C13 (Skill-block filtering): every skill block of a message is removed
\* from its joined text segments, and unless what is left is review
\* boilerplate, the message produces what is left, trimmed, as its prompt,
\* and no prompt when nothing is left.
C13_SkillBlocksStripped ==
    (Collected /\ ~BeginsWithHeading) =>
        IF AllSpace(Remainder) THEN fnOut = <<>> ELSE OnePromptOfRemainder

\* <skill name="x">...</skill>hello, with a second block over several lines
\* behind it, gave "hello"
C13_Witness ==
    /\ Collected
    /\ fnIn.plain[1] = <<>>
    /\ fnIn.blocks[1] # <<>> /\ fnIn.blocks[2] # <<>>
    /\ LF \in Range(fnIn.blocks[2])
    /\ fnIn.split
    /\ Len(fnOut) = 1 /\ fnOut[1].text = Hello

\* the Search Session of an editor: mode, query, matches, cursor, savedText
SearchState(ed) ==
    <<ed.searchMode, ed.searchQuery, ed.searchResults, ed.searchIndex, ed.originalText>>

\* C14: once the editor is Searching, only accept (Enter) or cancel (Escape,
\* Ctrl+G) ends the search: any other input leaves it Searching with its
\* savedText, and the return of a background task leaves mode, query,
\* matches, cursor and savedText as they are, its result never being applied
\* while a search is in progress.
C14_SearchUntilAcceptOrCancel ==
    [][editor.searchMode =>
          /\ (lastEv'.kind = "input"
                 /\ SearchKey(lastEv'.data) \notin {"escape", "enter", "ctrl-g"})
                => (editor'.searchMode /\ editor'.originalText = editor.originalText)
          /\ lastEv'.kind = "finish"
                => (lastEv'.outcome # "applied"
                      /\ SearchState(editor') = SearchState(editor))]_vars

\* C15 (Idle to Searching): Ctrl+R received while Idle switches to Searching
\* with the buffer text as savedText, an empty query, no matches and no
\* cursor; nothing is passed to the base editor and the buffer and the
\* history keep their content.
C15_EnterSearch ==
    [][(lastEv'.kind = "input" /\ ~editor.searchMode /\ lastEv'.data = <<CtrlR>>)
          => /\ editor'.searchMode
             /\ editor'.originalText = editor.text
             /\ editor'.searchQuery = <<>>
             /\ editor'.searchResults = <<>>
             /\ editor'.searchIndex = -1
             /\ editor'.text = editor.text
             /\ editor'.promptHistory = editor.promptHistory
             /\ lastEv'.forwarded = <<>>]_vars

\* a search has just been entered on the buffer "ab"
C15_Witness ==
    /\ lastEv.kind = "input" /\ ~lastEv.searching /\ lastEv.data = <<CtrlR>>
    /\ editor.searchMode
    /\ editor.text = <<97, 98>>
    /\ editor.originalText = <<97, 98>>

\* the text matches the query taken as a case-insensitive pattern; a query
\* that is no pattern matches nothing
PatternMatches(query, text) == RegExpCompiles(query) /\ RegExpTest(query, text)

\* the entries of the editor's History List that match the query, in the
\* order of the list
MatchingEntries(ed, query) ==
    SubSeqAt(ed.promptHistory,
             {i \in 1..Len(ed.promptHistory) : PatternMatches(query, ed.promptHistory[i].text)})

\* what a step in Searching leaves alone unless it exits: mode, savedText,
\* buffer and history
SearchFrame(ed1, ed2) ==
    /\ ed2.searchMode
    /\ ed2.originalText = ed1.originalText
    /\ ed2.text = ed1.text
    /\ ed2.promptHistory = ed1.promptHistory

\* C16 (Character input while Searching): a single character of code 32 or
\* more is appended to the query, the matches become the entries of the
\* History List that match the new query, in list order, and the cursor goes
\* to the first match, or to none without a match, wherever it was before.
C16_CharInput ==
    [][InputStep({"char"})
          => /\ editor'.searchQuery = editor.searchQuery \o lastEv'.data
             /\ editor'.searchResults = MatchingEntries(editor, editor'.searchQuery)
             /\ editor'.searchIndex = IF Len(editor'.searchResults) > 0 THEN 0 ELSE -1
             /\ SearchFrame(editor, editor')
             /\ lastEv'.forwarded = <<>>]_vars

\* with the cursor advanced to the second match, a character was typed and
\* the cursor is on the first of several matches of the longer query
C16_Witness ==
    /\ lastEv.kind = "input" /\ lastEv.searching /\ SearchKey(lastEv.data) = "char"
    /\ lastEv.cursor = 1
    /\ Len(editor.searchQuery) = 2
    /\ Len(editor.searchResults) > 1
    /\ Len(editor.searchResults) < Len(editor.promptHistory)
    /\ editor.searchIndex = 0

\* C17 as stated: backspace while Searching removes the last character of
\* the query and the matches become the entries that match the shortened
\* query as a pattern, by the rule of character input, also when the
\* shortened query is empty; with an empty query nothing changes.
C17_BackspaceSameRule ==
    [][InputStep({"backspace"})
          => IF editor.searchQuery = <<>> THEN editor' = editor
             ELSE /\ editor'.searchQuery =
                        SubSeq(editor.searchQuery, 1, Len(editor.searchQuery) - 1)
                  /\ editor'.searchResults = MatchingEntries(editor, editor'.searchQuery)
                  /\ editor'.searchIndex = IF Len(editor'.searchResults) > 0 THEN 0 ELSE -1
                  /\ SearchFrame(editor, editor')]_vars

\* C17 (amended): backspace while Searching removes the last character of
\* the query; when characters remain the matches become the entries that
\* match the shortened query and the cursor goes to the first of them, when
\* none remains the matches become empty and the cursor none; with an empty
\* query nothing changes.
C17_Backspace ==
    [][InputStep({"backspace"})
          => IF editor.searchQuery = <<>> THEN editor' = editor
             ELSE /\ editor'.searchQuery =
                        SubSeq(editor.searchQuery, 1, Len(editor.searchQuery) - 1)
                  /\ editor'.searchResults =
                        IF editor'.searchQuery = <<>> THEN <<>>
                        ELSE MatchingEntries(editor, editor'.searchQuery)
                  /\ editor'.searchIndex = IF Len(editor'.searchResults) > 0 THEN 0 ELSE -1
                  /\ SearchFrame(editor, editor')
                  /\ lastEv'.forwarded = <<>>]_vars

\* a backspace took a query without a match back to a query with matches,
\* the cursor on the first
C17_Witness ==
    /\ lastEv.kind = "input" /\ lastEv.searching /\ SearchKey(lastEv.data) = "backspace"
    /\ lastEv.cursor = -1
    /\ Len(editor.searchQuery) = 1
    /\ Len(editor.searchResults) > 1
    /\ editor.searchIndex = 0

\* the inputs with a meaning of their own in Searching: Escape, Enter,
\* Ctrl+G, Ctrl+R, backspace, a single printable character
HasSearchMeaning(data) ==
    \/ data \in { <<ESC>>, <<CR>>, <<LF>>, <<CtrlG>>, <<CtrlR>>, <<DEL>>, <<BS>> }
    \/ Len(data) = 1 /\ data[1] >= SPACE

\* C18 (Delegation frame): in Idle every input but Ctrl+R, and in Searching
\* every input without a search meaning, is handed to the base editor's
\* handler once and as it came, the buffer becomes what the base editor
\* makes of it, and mode, query, matches, cursor and savedText stay as they
\* are.
C18_Delegation ==
    [][(lastEv'.kind = "input"
          /\ IF editor.searchMode THEN ~HasSearchMeaning(lastEv'.data)
                                  ELSE lastEv'.data # <<CtrlR>>)
          => /\ lastEv'.forwarded = <<lastEv'.data>>
             /\ editor'.text = BaseText(editor.text, lastEv'.data)
             /\ SearchState(editor') = SearchState(editor)
             /\ editor'.promptHistory = editor.promptHistory]_vars

\* pasted text reached the buffer while a search with a query and matches
\* went on
C18_Witness ==
    /\ lastEv.kind = "input" /\ lastEv.searching /\ lastEv.data = <<97, 98>>
    /\ lastEv.forwarded = << <<97, 98>> >>
    /\ editor.searchMode
    /\ editor.searchQuery # <<>>
    /\ editor.searchIndex >= 0
    /\ editor.text # editor.originalText

\* C19: after a query edit the current match is the most recent entry of
\* the History List that matches the query, and each Ctrl+R moves to the
\* next older match, wrapping to the most recent one after the oldest.
C19_MostRecentFirst ==
    [][/\ (InputStep({"char", "backspace"}) /\ editor'.searchIndex >= 0)
            => \A i \in 1..Len(editor'.promptHistory) :
                  PatternMatches(editor'.searchQuery, editor'.promptHistory[i].text)
                    => editor'.promptHistory[i].timestamp
                         <= editor'.searchResults[editor'.searchIndex + 1].timestamp
       /\ (InputStep({"ctrl-r"}) /\ editor.searchIndex >= 0)
            => LET from == editor.searchResults[editor.searchIndex + 1]
                   to == editor'.searchResults[editor'.searchIndex + 1]
                   oldest == \A i \in 1..Len(editor.searchResults) :
                                from.timestamp <= editor.searchResults[i].timestamp
               IN  IF oldest
                   THEN \A i \in 1..Len(editor.searchResults) :
                           editor.searchResults[i].timestamp <= to.timestamp
                   ELSE to.timestamp <= from.timestamp]_vars

\* C20 (Redundant-swap avoidance): when the background task of a pass
\* returns with the prompts of the directory while the pass is the last one started and the buffer holds the
\* text it held at the start, setEditorComponent is called once more, with
\* the full list, if the full list is not the immediate list of the pass, and
\* is not called and the editor stays as it is if the two lists are equal.
C20_SwapOnlyIfDifferent ==
    [][(/\ lastEv'.kind = "finish"
        /\ lastEv'.outcome # "rejected"
        /\ passes[lastEv'.pass].currentLoad = loadCounter
        /\ editor.text = passes[lastEv'.pass].initialText)
          => \A dir \in Dirs, now \in Clock :
                FinishLoad(lastEv'.pass, dir, now) =>
                    LET pass == passes[lastEv'.pass]
                        full == buildHistoryList(pass.currentPrompts,
                                    loadPromptHistoryForCwd(dir, pass.sessionFile, now))
                    IN  IF full # pass.immediateHistory
                        THEN /\ setCalls' = Append(setCalls,
                                                   [pass |-> lastEv'.pass, full |-> TRUE])
                             /\ editor'.promptHistory = full
                        ELSE /\ setCalls' = setCalls
                             /\ editor' = editor]_vars

\* the scan of a pass returned a prompt, the session had it already, and
\* the only setEditorComponent call is the immediate one
C20_Witness ==
    /\ lastEv.kind = "finish" /\ lastEv.outcome = "same"
    /\ lastEv.scanned > 0
    /\ setCalls = << [pass |-> 1, full |-> FALSE] >>
    /\ editor.promptHistory # <<>>

\* the call of loadPromptHistoryForCwd on a generated directory has returned
\* a list
Loaded == fnIn.op = "loadPromptHistoryForCwd" /\ fnIn.done /\ ~fnOut.rejected

\* the call of loadPromptHistoryForCwd on a generated directory has ended
LoadEnded == fnIn.op = "loadPromptHistoryForCwd" /\ fnIn.done

LogPaths == <<"f1", "f2", "f3">>

\* the generated log i has a fault of the kinds given
HasFault(i, kinds) == fnIn.fault \in kinds /\ (fnIn.faulty = i \/ fnIn.fault = "dirFails")

\* the prompt lines log i holds when it is read
GoodCount(i) ==
    IF HasFault(i, {"statFails", "readFails", "empty", "dirFails"}) THEN 0
    ELSE fnIn.counts[i]

\* the logs listed with their times other than the active one, newest first
ScanOrder ==
    LET others == {i \in 1..3 : /\ LogPaths[i] # fnIn.exclude
                                /\ ~HasFault(i, {"statFails", "dirFails"})}
        newer(i) == {j \in others : fnIn.mtimes[j] > fnIn.mtimes[i]}
    IN  [k \in 1..Cardinality(others) |->
            CHOOSE i \in others : Cardinality(newer(i)) = k - 1]

\* the prompts in the first k logs of the scan order
PromptsUpTo(k) ==
    LET total(m) == IF m = 0 THEN 0
                    ELSE IF m = 1 THEN GoodCount(ScanOrder[1])
                    ELSE IF m = 2 THEN GoodCount(ScanOrder[1]) + GoodCount(ScanOrder[2])
                    ELSE GoodCount(ScanOrder[1]) + GoodCount(ScanOrder[2])
                            + GoodCount(ScanOrder[3])
    IN  total(k)

\* the n-th accepted prompt met in scan order: the j-th prompt line of log i
NthPrompt(n) ==
    LET k == CHOOSE k \in 1..Len(ScanOrder) : PromptsUpTo(k - 1) < n /\ n <= PromptsUpTo(k)
        i == ScanOrder[k]
        j == n - PromptsUpTo(k - 1)
        record == JsonRecords[GenRecord(LogPaths[i], j)]
    IN  [text |-> record.content[1].text, timestamp |-> record.mts]

\* C21 (Cross-file collection): loadPromptHistoryForCwd returns the first
\* prompts met when the logs other than the active one are scanned newest
\* first, each in line order, up to 30 of them; the active log is not read,
\* and no log is read after the one in which the 30th prompt was met.
C21_CrossFileBudget ==
    Loaded =>
        LET met == PromptsUpTo(Len(ScanOrder))
        IN  /\ Len(fnOut.prompts) = Min(met, MAX_RECENT_PROMPTS)
            /\ \A n \in 1..Len(fnOut.prompts) : fnOut.prompts[n] = NthPrompt(n)
            /\ \A r \in 1..Len(fnOut.reads) : fnOut.reads[r] = LogPaths[ScanOrder[r]]
            /\ \A k \in 1..Len(ScanOrder) :
                  k <= Len(fnOut.reads) <=> PromptsUpTo(k - 1) < MAX_RECENT_PROMPTS

\* the newest log is the active one, the budget was reached in the middle
\* of the second log read, and the third log was not read
C21_Witness ==
    /\ Loaded
    /\ fnIn.fault = "none"
    /\ fnIn.exclude = "f3" /\ fnIn.mtimes[3] = 3
    /\ Len(fnOut.reads) = 2
    /\ Len(fnOut.prompts) = MAX_RECENT_PROMPTS
    /\ PromptsUpTo(2) > MAX_RECENT_PROMPTS
    /\ PromptsUpTo(1) > 0

\* C22 (Invalid search pattern): while Searching with a query that does not
\* compile as a pattern there are no matches and no cursor, and a render
\* shows the prompt with "(no match)" and the "(failed)" status; an edit of
\* such a query leaves the machine Searching, and when the edited query
\* compiles again the matches are those of the new query (none for the
\* empty query).
C22_InvalidPattern ==
    [][/\ (editor'.searchMode /\ ~RegExpCompiles(editor'.searchQuery))
            => /\ editor'.searchResults = <<>>
               /\ editor'.searchIndex = -1
               /\ lastEv'.kind = "render"
                    => lastEv'.lines
                         = << SearchPrompt(editor'.searchQuery) \o NoMatchText, FailedText >>
       /\ (InputStep({"char", "backspace"}) /\ ~RegExpCompiles(editor.searchQuery))
            => /\ SearchFrame(editor, editor')
               /\ RegExpCompiles(editor'.searchQuery)
                    => /\ editor'.searchResults
                            = (IF editor'.searchQuery = <<>> THEN <<>>
                               ELSE MatchingEntries(editor, editor'.searchQuery))
                       /\ editor'.searchIndex
                            = (IF Len(editor'.searchResults) > 0 THEN 0 ELSE -1)]_vars

\* the query "a(" does not compile: over a History List with entries the
\* machine is Searching without matches and the render shows "(failed)"
C22_Witness ==
    /\ lastEv.kind = "render" /\ lastEv.searching
    /\ editor.searchQuery = <<97, 40>>
    /\ Len(editor.promptHistory) > 0
    /\ editor.searchResults = <<>>
    /\ lastEv.lines[Len(lastEv.lines)] = FailedText

\* C23 (I/O failures): readTail of a file that cannot be stat-ed, opened or
\* read, or that is empty, returns the empty text; a log with such a fault
\* adds no prompt, and the pass returns the prompts of the other logs as if
\* the faulty log were not there; a directory that cannot be listed gives
\* the empty list.
C23_FaultyLogSkipped ==
    /\ (TailRead /\ (~fnIn.readOk \/ fnIn.content = <<>>)) => fnOut = <<>>
    /\ (LoadEnded /\ fnIn.fault \in GenFaults \ {"none"}) =>
          LET sound == SelectSeq(ScanOrder, LAMBDA i : ~HasFault(i, GenFaults))
              count(k) == IF k > Len(sound) THEN 0 ELSE fnIn.counts[sound[k]]
              met == count(1) + count(2) + count(3)
              source(n) == IF n <= count(1) THEN <<sound[1], n>>
                           ELSE IF n <= count(1) + count(2) THEN <<sound[2], n - count(1)>>
                           ELSE <<sound[3], n - count(1) - count(2)>>
              record(n) == JsonRecords[GenRecord(LogPaths[source(n)[1]], source(n)[2])]
          IN  /\ ~fnOut.rejected
              /\ Len(fnOut.prompts) = Min(met, MAX_RECENT_PROMPTS)
              /\ \A n \in 1..Len(fnOut.prompts) :
                    fnOut.prompts[n] = [text |-> record(n).content[1].text,
                                        timestamp |-> record(n).mts]
              /\ fnIn.fault = "dirFails" => fnOut.prompts = <<>>

\* the newest log was listed and stat-ed but could not be read, and the pass
\* returned the prompts of the two older logs
C23_Witness ==
    /\ Loaded
    /\ fnIn.fault = "readFails"
    /\ fnIn.mtimes[fnIn.faulty] = 3
    /\ fnIn.exclude = NoFile
    /\ fnOut.reads[1] = LogPaths[fnIn.faulty]
    /\ Len(fnOut.reads) = 3
    /\ Len(fnOut.prompts) = 3

\* C24 (Malformed records): a log line that does not parse, or that is no
\* user message with a content array, or whose record is malformed in
\* another way, is skipped: the pass ends with a list and the list holds the
\* prompts of the lines before and after it, in line order, as if the line
\* were not there.
C24_MalformedLineSkipped ==
    (LoadEnded /\ fnIn.fault \in GenLineFaults) =>
        /\ ~fnOut.rejected
        /\ Len(fnOut.prompts) = Min(PromptsUpTo(Len(ScanOrder)), MAX_RECENT_PROMPTS)
        /\ \A n \in 1..Len(fnOut.prompts) : fnOut.prompts[n] = NthPrompt(n)

\* the line render(width) has put in place of the last line of the base
\* editor
SearchPromptLine == lastEv.lines[Len(BaseRender(editor.text, lastEv.width))]

\* C25 (Search prompt width): whenever the editor is drawn at a width w
\* while Searching, the search prompt line, prefix and match or prefix and
\* "(no match)", is at most w columns wide.
C25_PromptLineFits ==
    (lastEv.kind = "render" /\ lastEv.searching)
        => visibleWidth(SearchPromptLine) <= lastEv.width

\* C26 (Session directory encoding): getSessionDirForCwd maps two different
\* working-directory paths to two different session directories.
C26_DistinctDirs ==
    (fnIn.op = "getSessionDirForCwd" /\ fnIn.done /\ fnIn.cwd1 # fnIn.cwd2)
        => fnOut[1] # fnOut[2]

\* C27 (Search state invariant): the cursor of the editor is none exactly
\* when there is no match and otherwise points into the match list; outside
\* search mode the query is empty, there is no match, the cursor is none and
\* no text is saved.
C27_SearchStateConsistent ==
    /\ editor.searchIndex = -1 <=> editor.searchResults = <<>>
    /\ editor.searchResults # <<>>
          => editor.searchIndex \in 0..(Len(editor.searchResults) - 1)
    /\ ~editor.searchMode
          => /\ editor.searchQuery = <<>>
             /\ editor.searchResults = <<>>
             /\ editor.searchIndex = -1
             /\ editor.originalText = <<>>

\* a search entered on the buffer "ab" went to the last of several matches
\* and was then cancelled
C27_Witness ==
    /\ lastEv.kind = "input" /\ lastEv.searching /\ lastEv.data = <<ESC>>
    /\ lastEv.cursor > 0
    /\ ~editor.searchMode
    /\ editor.text = <<97, 98>>

\* pass p has started and its background task has not returned
Loading(p) == p <= Len(passes) /\ passes[p].outcome = "loading"

C29_DeleteIsDurable ==
    (fnIn.op = "snippet delete" /\ fnIn.done /\ fnOut.notified = "deleted")
        => /\ fnIn.name \notin SnippetNames(loadSnippets(fnOut.global, fnOut.project))
           /\ SnippetNames(fnOut.global) \ {fnIn.name}
                 = SnippetNames(fnIn.disk.global) \ {fnIn.name}

====
